---- MODULE Spec2Model ----
(***************************************************************************)
(* A model of the db-backups core: the backup executor                     *)
(* (src/src/lib/backup/mysql.ts, which holds lib/backup/index.ts,          *)
(* mysql.ts and postgresql.ts), the retention engine (src/unnamed/part_002)*)
(* and the scheduler (src/src/lib/scheduler/index.ts).                     *)
(*                                                                         *)
(* JavaScript runs each handler to its next await without interleaving,    *)
(* so one action is one such run: from the event that starts it to the     *)
(* await that suspends it.                                                 *)
(*                                                                         *)
(* These specifications share the variables:                               *)
(*   Spec          timer fires and manual requests running concurrently,   *)
(*                 the dump sub-process abstracted to its outcome;         *)
(*   SpecDump      one executeBackup call with the dump sub-process, its   *)
(*                 streams and its events in every order;                  *)
(*   SpecPreview   previewRetentionPolicy over every catalog of completed  *)
(*                 artifacts and every policy;                             *)
(*   SpecRetention applyRetentionPolicy runs over a catalog of completed   *)
(*                 artifacts;                                              *)
(*   SpecHourly    applyRetentionPolicy over ten artifacts made in ten     *)
(*                 consecutive hours of one day;                           *)
(*   SpecRegistry  the operations of the scheduler registry and the edits  *)
(*                 of the BackupSchedules table, in every order;           *)
(*   SpecPreviewApply  a preview of retention and an applyRetentionPolicy  *)
(*                 call with the same target and policy;                   *)
(*   SpecRestore   executeRestore calls with the restore sub-process and   *)
(*                 its events in every order;                              *)
(*   SpecCore      a schedule's timer firing while restores run;           *)
(*   SpecTargets   the create and update requests of the targets API       *)
(*                 (src/unnamed/part_005, api/databases/[id]/route.ts)     *)
(*                 running concurrently;                                   *)
(*   SpecFire      one schedule's timer firing while its record is edited, *)
(*                 deleted, reloaded and uninstalled;                      *)
(*   SpecMixed     applyRetentionPolicy over a catalog with completed,     *)
(*                 running and failed records of two targets;              *)
(*   SpecOverlap   two applyRetentionPolicy runs of one target while       *)
(*                 backups of that target complete;                        *)
(*   SpecExit      one backup with the events of its dump and restores     *)
(*                 from the file of that backup.                           *)
(***************************************************************************)
EXTENDS Integers, Sequences, FiniteSets, TLC

(***************************************************************************)
(* Bounds of the model.                                                    *)
(***************************************************************************)
\* backups started in one behaviour of Spec
MaxExec == 2
\* rows the BackupExecutions table holds at most
MaxRows == 3
\* catalog or file system faults injected in one behaviour
MaxFaults == 1
\* the clock stops here
MaxTime == 1
\* chunks the dump sub-process writes to its standard output
MaxChunks == 2
\* messages the dump sub-process writes to its standard error
MaxStderr == 1
\* the largest hourly or daily keep-count of a policy under retention
MaxKeep == 2
\* timers the scheduler creates in one behaviour of SpecRegistry
MaxTimers == 3
\* restores requested in one behaviour of SpecRestore
MaxRestores == 2

(***************************************************************************)
(* Values.                                                                 *)
(***************************************************************************)
\* SQL NULL / JavaScript null: a nullable value is <<>> or <<v>>
Null == <<>>

Some(v) == <<v>>

Procs == {"p1", "p2"}

Targets == {"db1", "db2"}

ScheduleIds == {"s1", "s2"}

ExecIds == 1..(IF MaxRows > MaxExec THEN MaxRows ELSE MaxExec)

Bytes == {0, 1}

(***************************************************************************)
(* Text.  A message is a sequence of one-character strings, so that        *)
(* toLowerCase and includes are computed and not assumed.                  *)
(***************************************************************************)
\* String.prototype.toLowerCase, on the letters the messages use
toLowerCase(msg) ==
  [i \in DOMAIN msg |->
     CASE msg[i] = "E" -> "e"
       [] msg[i] = "R" -> "r"
       [] msg[i] = "O" -> "o"
       [] OTHER -> msg[i]]

\* String.prototype.includes
includes(msg, sub) ==
  \E i \in 1..(Len(msg) - Len(sub) + 1) : SubSeq(msg, i, i + Len(sub) - 1) = sub

\* what the dump programs may write to standard error
StderrMessages ==
  { <<"e", "r", "r", "o", "r">>,
    <<"E", "R", "R", "O", "R">>,
    <<"E", "r", "r", "o", "r">>,
    <<"o", "k">> }

(***************************************************************************)
(* Hash and compressor.  The digest is a rolling hash of the bytes fed to  *)
(* it; the compressor is a streaming run-length encoder whose output is a  *)
(* sequence of <<byte, count>> runs, and Gunzip is its inverse.            *)
(***************************************************************************)
\* createHash('sha256')
createHash == 0

\* hash.update(chunk)
hashUpdate(h, chunk) == (h * 3 + chunk + 1) % 64

\* hash.digest('hex') of a whole byte sequence, recomputed independently
RECURSIVE Digest(_)
Digest(bytes) ==
  IF bytes = <<>> THEN createHash
  ELSE hashUpdate(Digest(SubSeq(bytes, 1, Len(bytes) - 1)), bytes[Len(bytes)])

\* createGzip(): no open run, nothing emitted
createGzip == [run |-> <<>>, out |-> <<>>]

\* gzip.write(chunk)
gzipWrite(z, chunk) ==
  IF z.run = <<>> THEN [z EXCEPT !.run = <<chunk, 1>>]
  ELSE IF z.run[1] = chunk THEN [z EXCEPT !.run = <<chunk, z.run[2] + 1>>]
  ELSE [run |-> <<chunk, 1>>, out |-> Append(z.out, z.run)]

\* gzip.end(): flush the open run
gzipEnd(z) ==
  [run |-> <<>>, out |-> IF z.run = <<>> THEN z.out ELSE Append(z.out, z.run)]

\* the decompressed content of a file of runs
RECURSIVE Gunzip(_)
Gunzip(file) ==
  IF file = <<>> THEN <<>>
  ELSE [i \in 1..Head(file)[2] |-> Head(file)[1]] \o Gunzip(Tail(file))

(***************************************************************************)
(* Calendar.  date-fns' startOf* floor an instant to its bucket.  The      *)
(* model's calendar is scaled down: an hour has 2 ticks, a day 12 hours, a *)
(* week 2 days, a month 3 days, a year 3 months; weeks straddle months and *)
(* years as they do in the real calendar.                                  *)
(***************************************************************************)
startOfHour(t) == (t \div 2) * 2

startOfDay(t) == (t \div 24) * 24

startOfWeek(t) == (t \div 48) * 48

startOfMonth(t) == (t \div 72) * 72

startOfYear(t) == (t \div 216) * 216

Tiers == {"hourly", "daily", "weekly", "monthly", "yearly"}

\* the key under which categorizeBackups files a start time in a tier's map
BucketKey(tier, t) ==
  CASE tier = "hourly" -> startOfHour(t)
    [] tier = "daily" -> startOfDay(t)
    [] tier = "weekly" -> startOfWeek(t)
    [] tier = "monthly" -> startOfMonth(t)
    [] tier = "yearly" -> startOfYear(t)

(***************************************************************************)
(* Retention: the keep-set.  A Map is a sequence of [key, value] entries   *)
(* in insertion order.                                                     *)
(***************************************************************************)
MapHas(m, k) == \E i \in DOMAIN m : m[i].key = k

MapGet(m, k) == m[CHOOSE i \in DOMAIN m : m[i].key = k].value

MapSet(m, k, v) ==
  IF MapHas(m, k)
  THEN [i \in DOMAIN m |-> IF m[i].key = k THEN [key |-> k, value |-> v] ELSE m[i]]
  ELSE Append(m, [key |-> k, value |-> v])

MapValues(m) == [i \in DOMAIN m |-> m[i].value]

\* Array.prototype.sort with (a, b) => time(b) - time(a): stable, newest first
RECURSIVE InsertDesc(_, _)
InsertDesc(sorted, b) ==
  IF sorted = <<>> THEN <<b>>
  ELSE IF Head(sorted).StartedAt >= b.StartedAt
       THEN <<Head(sorted)>> \o InsertDesc(Tail(sorted), b)
       ELSE <<b>> \o sorted

RECURSIVE sortByStartedAtDesc(_)
sortByStartedAtDesc(s) ==
  IF s = <<>> THEN <<>>
  ELSE InsertDesc(sortByStartedAtDesc(SubSeq(s, 1, Len(s) - 1)), s[Len(s)])

\* Array.prototype.slice(0, n)
\* a slice that takes one element too many
sliceOneMore(s, n) == SubSeq(s, 1, IF Len(s) < n + 1 THEN Len(s) ELSE n + 1)

slice(s, n) == SubSeq(s, 1, IF n < Len(s) THEN n ELSE Len(s))

\* a bucket's entry is replaced only by a backup that starts later
\* a bucket that takes every backup it is offered
laterThanAlways(backup, existing) == TRUE

laterThan(backup, existing) == backup.StartedAt > existing.StartedAt

\* one tier's map of categorizeBackups, the backups taken in order
RECURSIVE categorizeTier(_, _)
categorizeTier(backups, tier) ==
  IF backups = <<>> THEN <<>>
  ELSE LET m == categorizeTier(SubSeq(backups, 1, Len(backups) - 1), tier)
           backup == backups[Len(backups)]
           k == BucketKey(tier, backup.StartedAt)
       IN IF ~MapHas(m, k) \/ laterThan(backup, MapGet(m, k))
          THEN MapSet(m, k, backup)
          ELSE m

categorizeBackups(backups) == [tier \in Tiers |-> categorizeTier(backups, tier)]

\* the policy's keep-count of a tier
KeepCount(policy, tier) ==
  CASE tier = "hourly" -> policy.KeepHourly
    [] tier = "daily" -> policy.KeepDaily
    [] tier = "weekly" -> policy.KeepWeekly
    [] tier = "monthly" -> policy.KeepMonthly
    [] tier = "yearly" -> policy.KeepYearly

\* the ids one tier adds to the keep-set
keepOfTier(buckets, policy, tier) ==
  IF KeepCount(policy, tier) > 0
  THEN LET kept == slice(sortByStartedAtDesc(MapValues(buckets[tier])),
                         KeepCount(policy, tier))
       IN {kept[i].Id : i \in DOMAIN kept}
  ELSE {}

determineBackupsToKeep(backups, policy) ==
  IF Len(backups) = 0 THEN {}
  ELSE LET buckets == categorizeBackups(sortByStartedAtDesc(backups))
       IN UNION {keepOfTier(buckets, policy, tier) : tier \in Tiers}

(***************************************************************************)
(* State.                                                                  *)
(***************************************************************************)
VARIABLES
  DatabaseConfigs,   \* catalog table: target id -> [present, Enabled, Type]
                     \* (and Name in SpecTargets)
  RetentionPolicies, \* catalog table: policy id -> [present, Keep*]
  S3Configs,         \* the row with Enabled = 1 AND IsDefault = 1: Null or Some(row)
  BackupExecutions,  \* catalog table: execution id -> row (Status "absent": no row)
  BackupSchedules,   \* catalog table: schedule id -> row
  timers,            \* the cron tasks created so far, running or stopped
  activeJobs,        \* scheduler registry: schedule id -> Null or Some(index in timers)
  lastOp,            \* history: the last operation on the registry or the schedules
  localFiles,        \* execution ids whose local backup file exists
  s3Objects,         \* execution ids whose remote object exists
  now,               \* the clock
  nextId,            \* the next fresh execution id (nanoid never repeats)
  faults,            \* faults still to inject
  task,              \* per task: where it is suspended and its local variables
  dump,              \* the dump sub-process of task p1, its streams and listeners
  updateCalls,       \* history: UPDATE statements that changed each row
  s3Puts,            \* history: execution ids a remote put was issued for
  lastRun,           \* history: per target, the last finished retention run
  RestoreExecutions, \* catalog table: restore execution id -> row
  restoreTask,       \* per task: an executeRestore call and its sub-process
  tempWrites,        \* history: temporary paths written by downloads, with the writer
  request            \* per API request: where its handler is suspended and its body

vars ==
  <<DatabaseConfigs, RetentionPolicies, S3Configs, BackupSchedules, timers, lastOp,
    BackupExecutions, activeJobs,
    localFiles, s3Objects, now, nextId, faults, task, dump, updateCalls, s3Puts,
    lastRun, RestoreExecutions, restoreTask, tempWrites, request>>

restoreUnchanged == UNCHANGED <<RestoreExecutions, restoreTask, tempWrites>>

requestUnchanged == UNCHANGED request

PolicyIds == {"default", "pol1"}

\* no row under this id
AbsentRow ==
  [Id |-> 0, DatabaseConfigId |-> "", BackupScheduleId |-> Null, BackupType |-> "",
   Status |-> "absent", FileSizeBytes |-> Null, LocalPath |-> Null,
   S3Uploaded |-> 0, S3Bucket |-> Null, S3Key |-> Null, S3UploadedAt |-> Null,
   StartedAt |-> 0, DurationSeconds |-> Null,
   ErrorMessage |-> Null, Checksum |-> Null]

\* no finished retention run is remembered
NoRun == [valid |-> FALSE, policyId |-> "", kept |-> 0, deleted |-> 0]

\* the locals of a task that runs nothing
NoRetention ==
  [backups |-> <<>>, toKeep |-> {}, i |-> 1, deleted |-> 0, s3Config |-> Null,
   target |-> "", policyId |-> Null, policy |-> Null, out |-> "none", kept |-> 0,
   second |-> FALSE, prevKept |-> 0, prevDeleted |-> 0, keepList |-> <<>>,
   deleteList |-> <<>>, unlinkFailed |-> FALSE, remoteFailed |-> FALSE,
   catalogFailed |-> FALSE]

NoInput ==
  [DatabaseConfigId |-> "", BackupScheduleId |-> Null, BackupType |-> "",
   S3UploadEnabled |-> "undefined"]

IdleTask(p) ==
  [self |-> p, pc |-> "idle", caller |-> "none", schedule |-> Null, input |-> NoInput,
   executionId |-> 0, metadata |-> Null, s3KeyPath |-> Null,
   result |-> "none", error |-> Null, threw |-> FALSE, retentionCalls |-> 0,
   backupCalls |-> 0, uploadOutcome |-> "none", catalogFailed |-> FALSE,
   ret |-> NoRetention]

\* no dump sub-process has been spawned
NoDump ==
  [stage |-> "none", engine |-> "", fed |-> <<>>, stdoutEnded |-> FALSE,
   stderrCount |-> 0, exitSeen |-> FALSE, exitCode |-> Null,
   hasError |-> FALSE, errorMessage |-> <<>>, hash |-> createHash,
   gzip |-> createGzip, file |-> Null, pipeline |-> "none", settled |-> "pending"]

\* the part of the state a run of a handler reads and writes
World ==
  [rows |-> BackupExecutions, files |-> localFiles, objs |-> s3Objects,
   faults |-> faults, nextId |-> nextId, upd |-> updateCalls, puts |-> s3Puts,
   last |-> lastRun]

\* the state after a run of task p that ended in outcome o
Commit(p, o) ==
  /\ BackupExecutions' = o.w.rows
  /\ localFiles' = o.w.files
  /\ s3Objects' = o.w.objs
  /\ faults' = o.w.faults
  /\ nextId' = o.w.nextId
  /\ updateCalls' = o.w.upd
  /\ s3Puts' = o.w.puts
  /\ lastRun' = o.w.last
  /\ task' = [task EXCEPT ![p] = o.tk]

(***************************************************************************)
(* Retention engine: applyRetentionPolicy (src/unnamed/part_002).          *)
(* An outcome o is [w |-> World, tk |-> task locals]; a run of code from   *)
(* an outcome yields the set of outcomes it can end in.                    *)
(***************************************************************************)
\* getRetentionPolicy(id): result[0] || null
getRetentionPolicy(id) ==
  IF id \in PolicyIds /\ RetentionPolicies[id].present
  THEN Some(RetentionPolicies[id])
  ELSE Null

\* a lookup that falls back to 'default' when the given id does not resolve
policyIdOrDefaultFallsBack(retentionPolicyId) ==
  IF retentionPolicyId = Null \/ getRetentionPolicy(retentionPolicyId[1]) = Null
  THEN "default"
  ELSE retentionPolicyId[1]

\* retentionPolicyId || 'default'
policyIdOrDefault(retentionPolicyId) ==
  IF retentionPolicyId = Null THEN "default" ELSE retentionPolicyId[1]

\* a query that matches the rows of every target and status
completedOfAnyTarget(rows, target) == {id \in DOMAIN rows : rows[id].Status # "absent"}

\* the ids SELECT ... WHERE DatabaseConfigId = ? AND Status = 'completed' matches
completedOf(rows, target) ==
  {id \in DOMAIN rows :
     rows[id].Status = "completed" /\ rows[id].DatabaseConfigId = target}

\* the orders in which the rows ids can come when sorted by StartedAt
\* descending: rows with equal StartedAt come in any order
RECURSIVE orderedDesc(_, _)
orderedDesc(rows, ids) ==
  IF ids = {} THEN { <<>> }
  ELSE LET newest == { id \in ids : \A other \in ids :
                                       rows[id].StartedAt >= rows[other].StartedAt }
       IN UNION { { <<rows[id]>> \o rest : rest \in orderedDesc(rows, ids \ {id}) } :
                  id \in newest }

\* ... ORDER BY StartedAt DESC
queryCompleted(rows, target) == orderedDesc(rows, completedOf(rows, target))

\* deleteLocalBackup(backup): unlink if the file exists; a failure is logged
deleteLocalBackup(o, backup) ==
  IF backup.LocalPath # Null /\ backup.LocalPath[1] \in o.w.files
  THEN { [o EXCEPT !.w.files = @ \ {backup.LocalPath[1]}] }
       \cup (IF o.w.faults > 0
             THEN { [o EXCEPT !.w.faults = @ - 1, !.tk.ret.unlinkFailed = TRUE] }
             ELSE {})
  ELSE {o}

\* deleteS3Backup awaits deleteFromS3 only for a backup recorded as uploaded
remoteRecorded(backup) ==
  backup.S3Uploaded # 0 /\ backup.S3Bucket # Null /\ backup.S3Key # Null

\* a retention run on this target is suspended in a task other than self
retentionActive(self, target) ==
  \E q \in Procs \ {self} : task[q].pc = "retention" /\ task[q].ret.target = target

\* applyRetentionPolicy returns {deleted, kept}
retentionReturn(o, deleted, kept) ==
  [o EXCEPT !.tk.pc = "done", !.tk.ret.out = "returned",
            !.tk.ret.deleted = deleted, !.tk.ret.kept = kept,
            !.w.last[o.tk.ret.target] =
               IF retentionActive(o.tk.self, o.tk.ret.target)
               THEN NoRun
               ELSE [valid |-> TRUE, policyId |-> policyIdOrDefault(o.tk.ret.policyId),
                     kept |-> kept, deleted |-> deleted]]

\* a failed catalog statement swallowed into a {deleted, kept} result
retentionSwallow(o) ==
  [o EXCEPT !.tk.pc = "done", !.tk.ret.out = "returned", !.w.faults = @ - 1,
            !.tk.ret.catalogFailed = TRUE]

\* applyRetentionPolicy throws: nothing catches a failed catalog statement
retentionThrow(o) ==
  [o EXCEPT !.tk.pc = "done", !.tk.ret.out = "threw", !.w.faults = @ - 1,
            !.tk.ret.catalogFailed = TRUE,
            !.w.last[o.tk.ret.target] = NoRun]

\* a record deletion that counts but deletes nothing
deleteBackupRecordKeepsRow(o, backup) ==
  [o EXCEPT !.tk.ret.deleted = @ + 1, !.tk.ret.i = @ + 1]

\* a deletion by what the catalog holds now: every completed record of the
\* target outside the keep-set goes
deleteBackupRecordNotKept(o, backup) ==
  [o EXCEPT !.w.rows = [id \in DOMAIN o.w.rows |->
                          IF o.w.rows[id].Status = "completed"
                             /\ o.w.rows[id].DatabaseConfigId = o.tk.ret.target
                             /\ id \notin o.tk.ret.toKeep
                          THEN AbsentRow ELSE o.w.rows[id]],
            !.tk.ret.deleted = @ + 1,
            !.tk.ret.i = @ + 1]

\* deleteBackupRecord(backup.Id); deletedCount++
deleteBackupRecord(o, backup) ==
  [o EXCEPT !.w.rows[backup.Id] = AbsentRow,
            !.tk.ret.deleted = @ + 1,
            !.tk.ret.i = @ + 1]

\* the for loop of applyRetentionPolicy from backups[i], to the next await of a
\* remote delete or to the return
RECURSIVE retentionLoop(_)
retentionLoop(o) ==
  LET r == o.tk.ret IN
  IF r.i > Len(r.backups)
  THEN { retentionReturn(o, r.deleted, Cardinality(r.toKeep)) }
  ELSE LET backup == r.backups[r.i] IN
       IF backup.Id \in r.toKeep
       THEN retentionLoop([o EXCEPT !.tk.ret.i = @ + 1])
       ELSE UNION {
              IF r.s3Config # Null /\ remoteRecorded(backup)
              THEN { [o1 EXCEPT !.tk.pc = "retention"] }
              ELSE retentionLoop(deleteBackupRecord(o1, backup))
                   \cup (IF o1.w.faults > 0 THEN { retentionThrow(o1) } ELSE {})
              : o1 \in deleteLocalBackup(o, backup) }

\* applyRetentionPolicy(databaseConfigId, retentionPolicyId) from its start
applyRetentionPolicy(o, databaseConfigId, retentionPolicyId) ==
  LET policy == getRetentionPolicy(policyIdOrDefault(retentionPolicyId))
      prev == o.w.last[databaseConfigId]
      second == /\ prev.valid
                /\ prev.policyId = policyIdOrDefault(retentionPolicyId)
                /\ ~retentionActive(o.tk.self, databaseConfigId)
      o0 == [o EXCEPT !.tk.ret = [NoRetention EXCEPT !.target = databaseConfigId,
                                                     !.policyId = retentionPolicyId,
                                                     !.second = second,
                                                     !.prevKept = prev.kept,
                                                     !.prevDeleted = prev.deleted],
                      !.w.last[databaseConfigId] =
                         NoRun]
  IN (IF o.w.faults > 0 THEN { retentionThrow(o0) } ELSE {})
     \cup
     (IF policy = Null
      THEN { retentionReturn(o0, 0, 0) }
      ELSE UNION {
             IF Len(backups) = 0
             THEN { retentionReturn(o0, 0, 0) }
             ELSE retentionLoop(
                    [o0 EXCEPT !.tk.ret.backups = backups,
                               !.tk.ret.policy = policy,
                               !.tk.ret.toKeep = determineBackupsToKeep(backups, policy[1]),
                               !.tk.ret.s3Config = S3Configs])
             : backups \in queryCompleted(o.w.rows, databaseConfigId) })

\* a run that leaves the record of a backup whose remote deletion failed
afterDeleteFromS3KeepsRecordOnFailure(o, ok) ==
  LET backup == o.tk.ret.backups[o.tk.ret.i] IN
  IF ok
  THEN retentionLoop(deleteBackupRecord([o EXCEPT !.w.objs = @ \ {backup.Id}], backup))
  ELSE retentionLoop([o EXCEPT !.tk.ret.remoteFailed = TRUE, !.tk.ret.i = @ + 1])

\* the remote delete a suspended run awaits has ended (ok or not: a failure is
\* logged); the run goes on with the catalog record
afterDeleteFromS3(o, ok) ==
  LET backup == o.tk.ret.backups[o.tk.ret.i]
      o1 == IF ok THEN [o EXCEPT !.w.objs = @ \ {backup.Id}]
            ELSE [o EXCEPT !.tk.ret.remoteFailed = TRUE]
  IN retentionLoop(deleteBackupRecord(o1, backup))
     \cup (IF o1.w.faults > 0 THEN { retentionThrow(o1) } ELSE {})

\* a filter that lets every backup through
filterByIdKeepsAll(backups, ids) == backups

\* backups.filter(pred), pred given as the set of ids it accepts
RECURSIVE filterById(_, _)
filterById(backups, ids) ==
  IF backups = <<>> THEN <<>>
  ELSE (IF Head(backups).Id \in ids THEN <<Head(backups)>> ELSE <<>>)
       \o filterById(Tail(backups), ids)

\* a preview that removes the records it lists for deletion
previewRetentionPolicyDeletes(o, databaseConfigId, retentionPolicyId) ==
  LET policy == getRetentionPolicy(policyIdOrDefault(retentionPolicyId))
      o0 == [o EXCEPT !.tk.pc = "done",
                      !.tk.ret = [NoRetention EXCEPT !.target = databaseConfigId,
                                                     !.policyId = retentionPolicyId,
                                                     !.policy = policy,
                                                     !.out = "preview"]]
  IN IF policy = Null
     THEN { o0 }
     ELSE { LET toKeepIds == determineBackupsToKeep(backups, policy[1])
            IN [o0 EXCEPT !.tk.ret.backups = backups,
                          !.tk.ret.toKeep = toKeepIds,
                          !.tk.ret.keepList = filterById(backups, toKeepIds),
                          !.tk.ret.deleteList =
                             filterById(backups, (DOMAIN o.w.rows) \ toKeepIds),
                          !.w.rows = [id \in DOMAIN o.w.rows |->
                                        IF o.w.rows[id].Status = "completed"
                                           /\ id \notin toKeepIds
                                        THEN AbsentRow ELSE o.w.rows[id]]]
            : backups \in queryCompleted(o.w.rows, databaseConfigId) }

\* previewRetentionPolicy(databaseConfigId, retentionPolicyId): {toKeep, toDelete}
previewRetentionPolicy(o, databaseConfigId, retentionPolicyId) ==
  LET policy == getRetentionPolicy(policyIdOrDefault(retentionPolicyId))
      o0 == [o EXCEPT !.tk.pc = "done",
                      !.tk.ret = [NoRetention EXCEPT !.target = databaseConfigId,
                                                     !.policyId = retentionPolicyId,
                                                     !.policy = policy,
                                                     !.out = "preview"]]
  IN IF policy = Null
     THEN { o0 }
     ELSE { LET toKeepIds == determineBackupsToKeep(backups, policy[1])
            IN [o0 EXCEPT !.tk.ret.backups = backups,
                          !.tk.ret.toKeep = toKeepIds,
                          !.tk.ret.keepList = filterById(backups, toKeepIds),
                          !.tk.ret.deleteList =
                             filterById(backups, (DOMAIN o.w.rows) \ toKeepIds)]
            : backups \in queryCompleted(o.w.rows, databaseConfigId) }

(***************************************************************************)
(* Backup executor: executeBackup (src/src/lib/backup/mysql.ts 270-417).   *)
(***************************************************************************)
\* the INSERT of createBackupExecution: Status 'running', StartedAt now
runningRow(id, input, t) ==
  [AbsentRow EXCEPT !.Id = id,
                    !.DatabaseConfigId = input.DatabaseConfigId,
                    !.BackupScheduleId = input.BackupScheduleId,
                    !.BackupType = input.BackupType,
                    !.Status = "running",
                    !.StartedAt = t]

\* updateBackupExecution(executionId, {Status: 'failed', ErrorMessage, ...})
failedRow(row, errorMessage, t) ==
  [row EXCEPT !.Status = "failed",
              !.ErrorMessage = Some(errorMessage)]

\* a completed record that is always flagged as uploaded
completedRowAlwaysUploaded(row, tk, s3Uploaded, t) ==
  [row EXCEPT !.Status = "completed",
              !.FileSizeBytes = Some(tk.metadata[1].fileSizeBytes),
              !.LocalPath = Some(tk.executionId),
              !.S3Uploaded = 1,
              !.S3Bucket = IF s3Uploaded THEN Some(S3Configs[1].Bucket) ELSE Null,
              !.S3Key = IF s3Uploaded THEN tk.s3KeyPath ELSE Null,
              !.S3UploadedAt = IF s3Uploaded THEN Some(t) ELSE Null,
              !.DurationSeconds = Some(0),
              !.Checksum = Some(tk.metadata[1].checksum)]

\* updateBackupExecution(executionId, {Status: 'completed', ...})
completedRow(row, tk, s3Uploaded, t) ==
  [row EXCEPT !.Status = "completed",
              !.FileSizeBytes = Some(tk.metadata[1].fileSizeBytes),
              !.LocalPath = Some(tk.executionId),
              !.S3Uploaded = IF s3Uploaded THEN 1 ELSE 0,
              !.S3Bucket = IF s3Uploaded THEN Some(S3Configs[1].Bucket) ELSE Null,
              !.S3Key = IF s3Uploaded THEN tk.s3KeyPath ELSE Null,
              !.S3UploadedAt = IF s3Uploaded THEN Some(t) ELSE Null,
              !.DurationSeconds = Some(0),
              !.Checksum = Some(tk.metadata[1].checksum)]

\* one UPDATE ... WHERE Id = ?: it changes the row if the row is there
updateBackupExecution(o, newRow) ==
  LET id == o.tk.executionId IN
  IF o.w.rows[id].Status = "absent" THEN o
  ELSE [o EXCEPT !.w.rows[id] = newRow, !.w.upd[id] = @ + 1]

\* input.S3UploadEnabled !== false: strict inequality, so only the boolean
\* false is equal to false ("0" and "1" are SQLite's integers)
uploadRequested(S3UploadEnabled) == S3UploadEnabled # "false"

afterExecuteBackupAlwaysRetains(o) ==
  LET tk == o.tk IN
  IF tk.caller = "timer" /\ ~tk.threw /\ tk.schedule[1].RetentionPolicyId # Null
  THEN applyRetentionPolicy([o EXCEPT !.tk.retentionCalls = @ + 1],
                            tk.schedule[1].DatabaseConfigId,
                            tk.schedule[1].RetentionPolicyId)
  ELSE { [o EXCEPT !.tk.pc = "done"] }

\* what the caller of executeBackup does with its result
\* (executeScheduledBackup 65-95; POST /api/backups 77-84)
afterExecuteBackup(o) ==
  LET tk == o.tk IN
  IF tk.caller = "timer" /\ ~tk.threw /\ tk.result = "success"
     /\ tk.schedule[1].RetentionPolicyId # Null
  THEN applyRetentionPolicy([o EXCEPT !.tk.retentionCalls = @ + 1],
                            tk.schedule[1].DatabaseConfigId,
                            tk.schedule[1].RetentionPolicyId)
  ELSE { [o EXCEPT !.tk.pc = "done"] }

\* the catch block of executeBackup: the update to failed is not guarded
catchBlock(o, errorMessage) ==
  afterExecuteBackup(
    [updateBackupExecution(o, failedRow(o.w.rows[o.tk.executionId], errorMessage, now))
       EXCEPT !.tk.result = "failure", !.tk.error = Some(errorMessage)])
  \cup (IF o.w.faults > 0
        THEN afterExecuteBackup([o EXCEPT !.w.faults = @ - 1, !.tk.threw = TRUE,
                                          !.tk.catalogFailed = TRUE])
        ELSE {})

\* lines 372-397: the update to completed and the success result
completeBackup(o, s3Uploaded) ==
  afterExecuteBackup(
    [updateBackupExecution(o, completedRow(o.w.rows[o.tk.executionId], o.tk, s3Uploaded, now))
       EXCEPT !.tk.result = "success",
              !.w.last[o.tk.input.DatabaseConfigId] =
                 NoRun])
  \cup (IF o.w.faults > 0
        THEN catchBlock([o EXCEPT !.w.faults = @ - 1, !.tk.catalogFailed = TRUE],
                        <<"catalog update failed">>)
        ELSE {})

\* lines 321-370: the dump resolved with metadata
afterDumpResolved(o, metadata) ==
  LET o1 == [o EXCEPT !.tk.metadata = Some(metadata)] IN
  IF uploadRequested(o.tk.input.S3UploadEnabled)
  THEN (IF S3Configs # Null
        THEN { [o1 EXCEPT !.tk.pc = "upload",
                          !.tk.s3KeyPath = Some(o.tk.executionId),
                          !.w.puts = @ \cup {o.tk.executionId}] }
        ELSE completeBackup([o1 EXCEPT !.tk.uploadOutcome = "noconfig"], FALSE))
       \cup (IF o.w.faults > 0
             THEN catchBlock([o1 EXCEPT !.w.faults = @ - 1, !.tk.catalogFailed = TRUE],
                             <<"catalog query failed">>)
             ELSE {})
  ELSE completeBackup(o1, FALSE)

\* the dump rejected: the await throws into the catch block
afterDumpRejected(o, errorMessage) == catchBlock(o, errorMessage)

\* an upload failure thrown into the catch block
afterUploadFatal(o, success) ==
  IF success
  THEN completeBackup([o EXCEPT !.w.objs = @ \cup {o.tk.executionId},
                                !.tk.uploadOutcome = "uploaded"], TRUE)
  ELSE catchBlock([o EXCEPT !.tk.uploadOutcome = "failed"], <<"upload failed">>)

\* lines 358-366: uploadToS3 returned {success}
afterUpload(o, success) ==
  completeBackup(IF success
                 THEN [o EXCEPT !.w.objs = @ \cup {o.tk.executionId},
                                !.tk.uploadOutcome = "uploaded"]
                 ELSE [o EXCEPT !.tk.uploadOutcome = "failed"],
                 success)

\* executeBackup(input) from its start to the await of the dump
executeBackup(o, input) ==
  LET id == o.w.nextId
      o0 == [o EXCEPT !.tk.input = input, !.tk.backupCalls = @ + 1]
      created == [o0 EXCEPT !.w.rows[id] = runningRow(id, input, now),
                            !.w.nextId = @ + 1,
                            !.tk.executionId = id]
      database == DatabaseConfigs[input.DatabaseConfigId]
  IN IF ~database.present
     THEN \* FOREIGN KEY (DatabaseConfigId): the INSERT throws, outside the try
          afterExecuteBackup([o0 EXCEPT !.tk.threw = TRUE])
     ELSE { [created EXCEPT !.tk.pc = "dump"] }
          \cup (IF o.w.faults > 0
                THEN \* the INSERT throws
                     afterExecuteBackup([o0 EXCEPT !.w.faults = @ - 1, !.tk.threw = TRUE,
                                                   !.tk.catalogFailed = TRUE])
                     \cup
                     \* getDatabaseConfig throws, inside the try
                     catchBlock([created EXCEPT !.w.faults = @ - 1,
                                                !.tk.catalogFailed = TRUE],
                                <<"catalog query failed">>)
                ELSE {})

(***************************************************************************)
(* Scheduler: a timer fire (src/src/lib/scheduler/index.ts 34-96), and the *)
(* requests that start a backup or a retention run.                        *)
(***************************************************************************)
\* schedule.ScheduleType === 'custom' ? 'manual' : schedule.ScheduleType
backupTypeOf(ScheduleType) == IF ScheduleType = "custom" THEN "manual" ELSE ScheduleType

executeScheduledBackupIgnoresTarget(o, schedule) ==
  executeBackup(o, [DatabaseConfigId |-> schedule.DatabaseConfigId,
                    BackupScheduleId |-> Some(schedule.Id),
                    BackupType |-> backupTypeOf(schedule.ScheduleType),
                    S3UploadEnabled |-> schedule.S3UploadEnabled])

executeScheduledBackupReadsCatalog(o, schedule) ==
  LET stored == IF BackupSchedules[schedule.Id].present
                THEN BackupSchedules[schedule.Id] ELSE schedule
      database == DatabaseConfigs[stored.DatabaseConfigId] IN
  IF ~database.present \/ database.Enabled = 0
  THEN { [o EXCEPT !.tk.pc = "done"] }
  ELSE executeBackup(o, [DatabaseConfigId |-> stored.DatabaseConfigId,
                         BackupScheduleId |-> Some(stored.Id),
                         BackupType |-> backupTypeOf(stored.ScheduleType),
                         S3UploadEnabled |-> stored.S3UploadEnabled])

\* executeScheduledBackup(schedule) from the fire to its first await
executeScheduledBackup(o, schedule) ==
  LET database == DatabaseConfigs[schedule.DatabaseConfigId] IN
  (IF o.w.faults > 0
   THEN \* getDatabaseConfig throws: caught and logged by the handler
        { [o EXCEPT !.w.faults = @ - 1, !.tk.pc = "done"] }
   ELSE {})
  \cup
  (IF ~database.present \/ database.Enabled = 0
   THEN { [o EXCEPT !.tk.pc = "done"] }
   ELSE executeBackup(o, [DatabaseConfigId |-> schedule.DatabaseConfigId,
                          BackupScheduleId |-> Some(schedule.Id),
                          BackupType |-> backupTypeOf(schedule.ScheduleType),
                          S3UploadEnabled |-> schedule.S3UploadEnabled]))

dumpUnchanged == UNCHANGED dump

\* tasks are interchangeable: an event is served by the first idle one
firstIdle(p) ==
  /\ task[p].pc = "idle"
  /\ \A q \in Procs : (q = "p1" /\ p = "p2") => task[q].pc # "idle"

catalogUnchanged ==
  /\ UNCHANGED <<DatabaseConfigs, RetentionPolicies, S3Configs, BackupSchedules, timers,
                 activeJobs, lastOp>>
  /\ restoreUnchanged
  /\ requestUnchanged

\* the cron timer of schedule s fires; the handler runs the schedule it captured
TimerFire(p, s) ==
  /\ firstIdle(p)
  /\ \E k \in DOMAIN timers :
       /\ timers[k].Id = s
       /\ timers[k].running
       /\ \E out \in executeScheduledBackup(
                       [w |-> World,
                        tk |-> [task[p] EXCEPT !.caller = "timer",
                                               !.schedule = Some(timers[k].schedule)]],
                       timers[k].schedule) :
             Commit(p, out)
  /\ nextId <= MaxExec
  /\ UNCHANGED now
  /\ catalogUnchanged
  /\ dumpUnchanged

\* POST /api/backups with body {DatabaseConfigId, S3UploadEnabled}
ManualBackup(p, databaseConfigId, S3UploadEnabled) ==
  /\ firstIdle(p)
  /\ nextId <= MaxExec
  /\ \E out \in executeBackup(
                  [w |-> World, tk |-> [task[p] EXCEPT !.caller = "api"]],
                  [DatabaseConfigId |-> databaseConfigId,
                   BackupScheduleId |-> Null,
                   BackupType |-> "manual",
                   S3UploadEnabled |-> S3UploadEnabled]) :
        Commit(p, out)
  /\ UNCHANGED now
  /\ catalogUnchanged
  /\ dumpUnchanged

\* the dump of task p ends, its sub-process abstracted: the promise of
\* executePostgresBackup / executeMySQLBackup resolves or rejects
DumpSettles(p) ==
  /\ task[p].pc = "dump"
  /\ LET o == [w |-> [World EXCEPT !.files = @ \cup {task[p].executionId}],
               tk |-> task[p]]
     IN \E out \in afterDumpResolved(o, [fileSizeBytes |-> 1, checksum |-> 0])
                   \cup afterDumpRejected(o, <<"dump failed">>) :
          Commit(p, out)
  /\ UNCHANGED now
  /\ catalogUnchanged
  /\ dumpUnchanged

\* uploadToS3 returns {success: true} or {success: false}
UploadDone(p) ==
  /\ task[p].pc = "upload"
  /\ \E success \in BOOLEAN :
       \E out \in afterUpload([w |-> World, tk |-> task[p]], success) :
          Commit(p, out)
  /\ UNCHANGED now
  /\ catalogUnchanged
  /\ dumpUnchanged

\* deleteFromS3 returns {success: true} or {success: false}
S3DeleteDone(p) ==
  /\ task[p].pc = "retention"
  /\ \E ok \in BOOLEAN :
       \E out \in afterDeleteFromS3([w |-> World, tk |-> task[p]], ok) :
          Commit(p, out)
  /\ UNCHANGED now
  /\ catalogUnchanged
  /\ dumpUnchanged

\* applyRetentionPolicy called directly (applyAllRetentionPolicies, or an API)
RetentionCall(p, databaseConfigId, retentionPolicyId) ==
  /\ firstIdle(p)
  /\ \E out \in applyRetentionPolicy(
                  [w |-> World, tk |-> [task[p] EXCEPT !.caller = "retention",
                                                    !.retentionCalls = @ + 1]],
                  databaseConfigId, retentionPolicyId) :
        Commit(p, out)
  /\ UNCHANGED now
  /\ catalogUnchanged
  /\ dumpUnchanged

\* a preview of retention is requested
PreviewCall(p, databaseConfigId, retentionPolicyId) ==
  /\ firstIdle(p)
  /\ \E out \in previewRetentionPolicy([w |-> World, tk |-> task[p]],
                                       databaseConfigId, retentionPolicyId) :
        Commit(p, out)
  /\ UNCHANGED now
  /\ catalogUnchanged
  /\ dumpUnchanged

\* the task's handler is over; the task may serve another event
TaskEnd(p) ==
  /\ task[p].pc = "done"
  /\ task' = [task EXCEPT ![p] = IdleTask(p)]
  /\ UNCHANGED <<BackupExecutions, localFiles, s3Objects, now, nextId, faults,
                 updateCalls, s3Puts, lastRun>>
  /\ catalogUnchanged
  /\ dumpUnchanged

\* time passes
Tick ==
  /\ now < MaxTime
  /\ now' = now + 1
  /\ UNCHANGED <<BackupExecutions, localFiles, s3Objects, nextId, faults, task,
                 updateCalls, s3Puts, lastRun>>
  /\ catalogUnchanged
  /\ dumpUnchanged

(***************************************************************************)
(* The dump sub-process of one executeBackup call, run by task p1:         *)
(* executePostgresBackup / executeMySQLBackup (src/src/lib/backup/mysql.ts *)
(* 465-561 and 27-120).  Each event of the child process and of the        *)
(* stdout -> gzip -> file pipeline is an action; the first resolve or      *)
(* reject settles the promise and resumes executeBackup in the same run.   *)
(***************************************************************************)
\* the stderr 'data' listener's test of a message
\* (mysql.ts 58 for mysqldump, 499 for pg_dump)
looksLikeError(engine, message) ==
  IF engine = "mysql"
  THEN includes(toLowerCase(message), <<"e", "r", "r", "o", "r">>)
  ELSE \/ includes(message, <<"e", "r", "r", "o", "r">>)
       \/ includes(message, <<"E", "R", "R", "O", "R">>)

dumpRestUnchanged ==
  /\ UNCHANGED <<now, activeJobs, BackupSchedules, timers, lastOp>>
  /\ restoreUnchanged
  /\ requestUnchanged
  /\ UNCHANGED <<DatabaseConfigs, RetentionPolicies, S3Configs>>

\* an event handler has left the dump as d; kind is "none", or the "resolve"
\* or "reject" it called with value.  Only the first settlement of a promise
\* counts; it resumes executeBackup
DumpEvent(d, kind, value) ==
  IF kind # "none" /\ dump.settled = "pending" /\ task["p1"].pc = "dump"
  THEN /\ dump' = [d EXCEPT !.settled = kind]
       /\ LET o == [w |-> World, tk |-> task["p1"]] IN
          \E out \in (IF kind = "resolve" THEN afterDumpResolved(o, value)
                      ELSE afterDumpRejected(o, value)) :
             Commit("p1", out)
  ELSE /\ dump' = d
       /\ UNCHANGED <<BackupExecutions, localFiles, s3Objects, nextId, faults, task,
                      updateCalls, s3Puts, lastRun>>

\* decrypt resolved and the promise executor ran: the program is spawned, the
\* output file is created, the listeners and the pipeline are set up
Spawn ==
  /\ task["p1"].pc = "dump"
  /\ dump.stage = "none"
  /\ dump' = [NoDump EXCEPT
                !.stage = "running",
                !.engine = DatabaseConfigs[task["p1"].input.DatabaseConfigId].Type,
                !.pipeline = "running"]
  /\ localFiles' = localFiles \cup {task["p1"].executionId}
  /\ UNCHANGED <<BackupExecutions, s3Objects, nextId, faults, task, updateCalls,
                 s3Puts, lastRun>>
  /\ dumpRestUnchanged

\* a hash listener that misses the first chunk the pipe gets
StdoutDataHashedLate(chunk) ==
  /\ dump.stage = "running"
  /\ dump.pipeline = "running"
  /\ ~dump.stdoutEnded
  /\ Len(dump.fed) < MaxChunks
  /\ DumpEvent([dump EXCEPT !.hash = IF dump.fed = <<>> THEN @ ELSE hashUpdate(@, chunk),
                            !.gzip = gzipWrite(@, chunk),
                            !.fed = Append(@, chunk)],
               "none", Null)
  /\ dumpRestUnchanged

\* stdout 'data': the hash listener and the pipe to gzip both get the chunk
StdoutData(chunk) ==
  /\ dump.stage = "running"
  /\ dump.pipeline = "running"
  /\ ~dump.stdoutEnded
  /\ Len(dump.fed) < MaxChunks
  /\ DumpEvent([dump EXCEPT !.hash = hashUpdate(@, chunk),
                            !.gzip = gzipWrite(@, chunk),
                            !.fed = Append(@, chunk)],
               "none", Null)
  /\ dumpRestUnchanged

\* stdout 'end': the pipe ends gzip, which flushes
StdoutEnd ==
  /\ dump.stage \in {"running", "failed"}
  /\ dump.pipeline = "running"
  /\ ~dump.stdoutEnded
  /\ DumpEvent([dump EXCEPT !.stdoutEnded = TRUE, !.gzip = gzipEnd(@)], "none", Null)
  /\ dumpRestUnchanged

\* the file stream finished: pipeline(...) fulfils and the .then callback runs
PipelineDone ==
  /\ dump.pipeline = "running"
  /\ dump.stdoutEnded
  /\ LET d == [dump EXCEPT !.pipeline = "done", !.file = Some(dump.gzip.out)] IN
     IF dump.hasError
     THEN DumpEvent(d, "reject", <<"backup failed: ">> \o dump.errorMessage)
     ELSE DumpEvent(d, "resolve",
                    [fileSizeBytes |-> Len(dump.gzip.out), checksum |-> dump.hash])
  /\ dumpRestUnchanged

\* a stream of the pipeline failed: the .catch callback runs
PipelineFailed ==
  /\ dump.pipeline = "running"
  /\ DumpEvent([dump EXCEPT !.pipeline = "failed"], "reject", <<"pipeline failed">>)
  /\ dumpRestUnchanged

\* stderr 'data'
StderrData(message) ==
  /\ dump.stage = "running"
  /\ dump.stderrCount < MaxStderr
  /\ DumpEvent(IF looksLikeError(dump.engine, message)
               THEN [dump EXCEPT !.stderrCount = @ + 1, !.hasError = TRUE,
                                 !.errorMessage = @ \o message]
               ELSE [dump EXCEPT !.stderrCount = @ + 1],
               "none", Null)
  /\ dumpRestUnchanged

\* the child's 'error' event: the program could not be started
ProcError ==
  /\ dump.stage = "running"
  /\ dump.fed = <<>> /\ ~dump.stdoutEnded /\ ~dump.exitSeen /\ dump.stderrCount = 0
  /\ DumpEvent([dump EXCEPT !.stage = "failed"], "reject", <<"failed to start">>)
  /\ dumpRestUnchanged

\* the child's 'exit' event with its code (null when a signal killed it)
ProcExit(code) ==
  /\ dump.stage = "running"
  /\ ~dump.exitSeen
  /\ LET d == [dump EXCEPT !.exitSeen = TRUE, !.exitCode = code] IN
     IF code # Some(0) /\ code # Null
     THEN DumpEvent(d, "reject", <<"exited with code: ">> \o dump.errorMessage)
     ELSE DumpEvent(d, "none", Null)
  /\ dumpRestUnchanged

(***************************************************************************)
(* Restore executor: executeRestore (src/src/lib/restore/index.ts 219-348) *)
(* with the restore sub-process of restorePostgres and restoreMySQL.  An   *)
(* action is one run of the call between two awaits, or one event of the   *)
(* sub-process; the event that settles the promise resumes the call.       *)
(***************************************************************************)
RestoreIds == 1..MaxRestores

\* no row under this id in RestoreExecutions
NoRestoreRow ==
  [Id |-> 0, DatabaseConfigId |-> "", Status |-> "absent", SourceType |-> "",
   SourcePath |-> Null, S3Bucket |-> Null, S3Key |-> Null, StartedAt |-> 0,
   CompletedAt |-> Null, DurationSeconds |-> Null, ErrorMessage |-> Null]

NoRestoreInput ==
  [DatabaseConfigId |-> "", SourceType |-> "", SourcePath |-> Null, S3Bucket |-> Null,
   S3Key |-> Null]

\* no executeRestore call is in progress in the task
NoRestoreTask ==
  [pc |-> "idle", input |-> NoRestoreInput, executionId |-> 0, backupFilePath |-> Null,
   engine |-> "", startTime |-> 0, spawned |-> 0, proc |-> "none", stderrCount |-> 0,
   errorMessage |-> <<>>, sawError |-> FALSE, pipelineFailed |-> FALSE,
   startFailed |-> FALSE, download |-> "none",
   closeCode |-> Null, settled |-> "pending", result |-> "none", error |-> <<>>,
   threw |-> FALSE]

\* no restore was ever requested
NoRestores ==
  /\ RestoreExecutions = [id \in RestoreIds |-> NoRestoreRow]
  /\ restoreTask = [p \in Procs |-> NoRestoreTask]
  /\ tempWrites = {}

\* nanoid(): an id no row has
nextRestoreId ==
  1 + Cardinality({id \in RestoreIds : RestoreExecutions[id].Status # "absent"})

\* the INSERT of createRestoreExecution: Status 'running', the source verbatim
runningRestoreRow(id, input, t) ==
  [NoRestoreRow EXCEPT !.Id = id,
                       !.DatabaseConfigId = input.DatabaseConfigId,
                       !.Status = "running",
                       !.SourceType = input.SourceType,
                       !.SourcePath = input.SourcePath,
                       !.S3Bucket = input.S3Bucket,
                       !.S3Key = input.S3Key,
                       !.StartedAt = t]

\* updateRestoreExecution(executionId, {Status: 'completed', CompletedAt,
\* DurationSeconds})
completedRestoreRow(row, durationSeconds, t) ==
  [row EXCEPT !.Status = "completed", !.CompletedAt = Some(t),
              !.DurationSeconds = Some(durationSeconds)]

failedRestoreRowCancelled(row, errorMessage, t) ==
  [row EXCEPT !.Status = "cancelled", !.ErrorMessage = Some(errorMessage),
              !.CompletedAt = Some(t)]

\* updateRestoreExecution(executionId, {Status: 'failed', ErrorMessage,
\* ErrorStack, CompletedAt})
failedRestoreRow(row, errorMessage, t) ==
  [row EXCEPT !.Status = "failed", !.ErrorMessage = Some(errorMessage),
              !.CompletedAt = Some(t)]

existsSyncAlways(path) == TRUE

\* existsSync(backupFilePath)
existsSync(path) == path \in localFiles

\* input.S3Key.split('/').pop()
basename(key) == key[Len(key)]

tempFileNameWithoutId(executionId, key) == <<"restore", basename(key)>>

\* `restore_${executionId}_${basename}` under the backup storage path
tempFileName(executionId, key) == <<"restore", executionId, basename(key)>>

\* the variables no step of a restore changes
restoreRestUnchanged ==
  UNCHANGED <<DatabaseConfigs, RetentionPolicies, S3Configs, BackupSchedules, timers,
              lastOp, BackupExecutions, activeJobs, localFiles, s3Objects, now, nextId,
              task, dump, updateCalls, s3Puts, lastRun, request>>

\* the catch block of executeRestore, with the rows and the task as the try
\* block left them: the update to failed is not guarded
restoreCatch(p, rows, rt, errorMessage) ==
  \/ /\ RestoreExecutions' =
          [rows EXCEPT ![rt.executionId] = failedRestoreRow(@, errorMessage, now)]
     /\ restoreTask' = [restoreTask EXCEPT ![p] = [rt EXCEPT !.pc = "done",
                                                             !.result = "failure",
                                                             !.error = errorMessage]]
     /\ UNCHANGED faults
  \/ /\ faults > 0
     /\ faults' = faults - 1
     /\ RestoreExecutions' = rows
     /\ restoreTask' = [restoreTask EXCEPT ![p] = [rt EXCEPT !.pc = "done",
                                                             !.threw = TRUE]]

\* lines 287-309 to the await of decrypt in restorePostgres or restoreMySQL
startRestore(p, rows, rt) ==
  LET database == DatabaseConfigs[rt.input.DatabaseConfigId] IN
  IF database.Type \in {"postgresql", "mysql"}
  THEN /\ RestoreExecutions' = rows
       /\ restoreTask' = [restoreTask EXCEPT ![p] = [rt EXCEPT !.pc = "decrypting",
                                                               !.engine = database.Type,
                                                               !.startTime = now]]
       /\ UNCHANGED faults
  ELSE restoreCatch(p, rows, rt, <<"Unsupported database type: ", database.Type>>)

\* tasks are interchangeable: a request is served by the first idle one
firstIdleRestore(p) ==
  /\ restoreTask[p].pc = "idle"
  /\ \A q \in Procs : (q = "p1" /\ p = "p2") => restoreTask[q].pc # "idle"

\* executeRestore(input) from its start to its first await
RestoreCall(p, input) ==
  /\ firstIdleRestore(p)
  /\ nextRestoreId <= MaxRestores
  /\ LET executionId == nextRestoreId
         rows == [RestoreExecutions EXCEPT
                    ![executionId] = runningRestoreRow(executionId, input, now)]
         rt == [NoRestoreTask EXCEPT !.input = input, !.executionId = executionId]
     IN \/ /\ faults > 0
           /\ faults' = faults - 1
           /\ restoreTask' = [restoreTask EXCEPT ![p] = [NoRestoreTask EXCEPT
                                                           !.input = input,
                                                           !.pc = "done",
                                                           !.threw = TRUE]]
           /\ UNCHANGED <<RestoreExecutions, tempWrites>>
        \/ IF ~DatabaseConfigs[input.DatabaseConfigId].present
           THEN \* FOREIGN KEY (DatabaseConfigId): the INSERT throws, outside the try
                /\ restoreTask' = [restoreTask EXCEPT ![p] = [NoRestoreTask EXCEPT
                                                                !.input = input,
                                                                !.pc = "done",
                                                                !.threw = TRUE]]
                /\ UNCHANGED <<RestoreExecutions, tempWrites, faults>>
           ELSE IF input.SourceType = "s3"
           THEN IF input.S3Bucket = Null \/ input.S3Key = Null
                THEN /\ restoreCatch(p, rows, rt,
                                     <<"S3 bucket and key are required for S3 restore">>)
                     /\ UNCHANGED tempWrites
                ELSE IF S3Configs = Null
                THEN /\ restoreCatch(p, rows, rt, <<"No S3 configuration found">>)
                     /\ UNCHANGED tempWrites
                ELSE LET path == tempFileName(executionId, input.S3Key[1]) IN
                     /\ RestoreExecutions' = rows
                     /\ restoreTask' =
                          [restoreTask EXCEPT ![p] = [rt EXCEPT !.pc = "downloading",
                                                                !.download = "pending",
                                                                !.backupFilePath = Some(path)]]
                     /\ tempWrites' = tempWrites \cup {[path |-> path, by |-> executionId]}
                     /\ UNCHANGED faults
           ELSE IF input.SourceType = "local"
           THEN /\ IF input.SourcePath = Null
                   THEN restoreCatch(p, rows, rt,
                                     <<"Source path is required for local restore">>)
                   ELSE IF ~existsSync(input.SourcePath[1])
                   THEN restoreCatch(p, rows, rt,
                                     <<"Backup file not found: ", input.SourcePath[1]>>)
                   ELSE startRestore(p, rows,
                                     [rt EXCEPT !.backupFilePath = input.SourcePath])
                /\ UNCHANGED tempWrites
           ELSE /\ restoreCatch(p, rows, rt,
                                <<"Unsupported source type: ", input.SourceType>>)
                /\ UNCHANGED tempWrites
  /\ restoreRestUnchanged

\* downloadFromS3 returns {success: true} or {success: false, error}
DownloadDone(p, ok) ==
  /\ restoreTask[p].pc = "downloading"
  /\ IF ok
     THEN startRestore(p, RestoreExecutions, [restoreTask[p] EXCEPT !.download = "ok"])
     ELSE restoreCatch(p, RestoreExecutions, [restoreTask[p] EXCEPT !.download = "failed"],
                       <<"Failed to download from S3: ", "download error">>)
  /\ UNCHANGED tempWrites
  /\ restoreRestUnchanged

\* decrypt returns the password and the executor body spawns the restore
\* program, or decrypt throws
DecryptDone(p, ok) ==
  /\ restoreTask[p].pc = "decrypting"
  /\ IF ok
     THEN /\ restoreTask' = [restoreTask EXCEPT ![p].pc = "running",
                                                ![p].spawned = @ + 1,
                                                ![p].proc = "alive"]
          /\ UNCHANGED <<RestoreExecutions, faults>>
     ELSE restoreCatch(p, RestoreExecutions, restoreTask[p], <<"decrypt failed">>)
  /\ UNCHANGED tempWrites
  /\ restoreRestUnchanged

\* an event handler of the sub-process has left the task as rt; kind is
\* "none", or the "resolve" or "reject" it called with value.  Only the first
\* settlement counts; it resumes executeRestore
RestoreEvent(p, rt, kind, value) ==
  IF kind = "none" \/ rt.settled # "pending"
  THEN /\ restoreTask' = [restoreTask EXCEPT ![p] = rt]
       /\ UNCHANGED <<RestoreExecutions, faults>>
  ELSE IF kind = "reject"
  THEN restoreCatch(p, RestoreExecutions, [rt EXCEPT !.settled = "rejected"], value)
  ELSE \* lines 311-327: the update to completed and the success result
       \/ /\ RestoreExecutions' =
               [RestoreExecutions EXCEPT ![rt.executionId] =
                  completedRestoreRow(@, now - rt.startTime, now)]
          /\ restoreTask' = [restoreTask EXCEPT ![p] = [rt EXCEPT !.settled = "resolved",
                                                                  !.pc = "done",
                                                                  !.result = "success"]]
          /\ UNCHANGED faults
       \/ \* the update to completed throws and the catch block records it
          /\ faults > 0
          /\ faults' = faults - 1
          /\ RestoreExecutions' =
               [RestoreExecutions EXCEPT ![rt.executionId] =
                  failedRestoreRow(@, <<"catalog update failed">>, now)]
          /\ restoreTask' = [restoreTask EXCEPT ![p] = [rt EXCEPT !.settled = "resolved",
                                                                  !.pc = "done",
                                                                  !.result = "failure",
                                                                  !.error =
                                                                    <<"catalog update failed">>]]

\* stderr 'data' of the restore program (lines 120-126, 181-187)
RestoreStderrData(p, message) ==
  /\ restoreTask[p].proc = "alive"
  /\ restoreTask[p].stderrCount < MaxStderr
  /\ RestoreEvent(p,
                  IF includes(toLowerCase(message), <<"e", "r", "r", "o", "r">>)
                  THEN [restoreTask[p] EXCEPT !.stderrCount = @ + 1,
                                              !.sawError = TRUE,
                                              !.errorMessage = @ \o message]
                  ELSE [restoreTask[p] EXCEPT !.stderrCount = @ + 1],
                  "none", <<>>)
  /\ UNCHANGED tempWrites
  /\ restoreRestUnchanged

\* the pipeline file -> gunzip -> stdin rejects
RestorePipelineFailed(p) ==
  /\ restoreTask[p].proc = "alive"
  /\ ~restoreTask[p].pipelineFailed
  /\ RestoreEvent(p, [restoreTask[p] EXCEPT !.pipelineFailed = TRUE], "reject",
                  <<"Failed to stream backup file: ", "stream error">>)
  /\ UNCHANGED tempWrites
  /\ restoreRestUnchanged

\* the child's 'error' event: the program could not be started
RestoreProcError(p) ==
  /\ restoreTask[p].proc = "alive"
  /\ restoreTask[p].settled = "pending"
  /\ restoreTask[p].stderrCount = 0
  /\ RestoreEvent(p, [restoreTask[p] EXCEPT !.startFailed = TRUE], "reject",
                  <<"Failed to start: ", "spawn error">>)
  /\ UNCHANGED tempWrites
  /\ restoreRestUnchanged

\* `${code}` in a template literal
codeText(code) == IF code = Null THEN "null" ELSE IF code = Some(0) THEN "0" ELSE "1"

\* a 'close' handler that resolves on a null code as on zero
RestoreCloseNullSucceeds(p, code) ==
  /\ restoreTask[p].proc = "alive"
  /\ restoreTask[p].startFailed => code = Some(1)
  /\ LET rt == [restoreTask[p] EXCEPT !.proc = "closed", !.closeCode = code] IN
     IF code = Some(0) \/ code = Null
     THEN RestoreEvent(p, rt, "resolve", <<>>)
     ELSE RestoreEvent(p, rt, "reject",
                       <<"exited with code ", codeText(code), ": ">> \o rt.errorMessage)
  /\ UNCHANGED tempWrites
  /\ restoreRestUnchanged

\* the child's 'close' event with its code (null when a signal killed it); a
\* program that could not be started closes with an error code
RestoreClose(p, code) ==
  /\ restoreTask[p].proc = "alive"
  /\ restoreTask[p].startFailed => code = Some(1)
  /\ LET rt == [restoreTask[p] EXCEPT !.proc = "closed", !.closeCode = code] IN
     IF code = Some(0)
     THEN RestoreEvent(p, rt, "resolve", <<>>)
     ELSE RestoreEvent(p, rt, "reject",
                       <<"exited with code ", codeText(code), ": ">> \o rt.errorMessage)
  /\ UNCHANGED tempWrites
  /\ restoreRestUnchanged

\* the call is over and its sub-process, if any, has closed
RestoreEnd(p) ==
  /\ restoreTask[p].pc = "done"
  /\ restoreTask[p].proc # "alive"
  /\ restoreTask' = [restoreTask EXCEPT ![p] = NoRestoreTask]
  /\ UNCHANGED <<RestoreExecutions, tempWrites, faults>>
  /\ restoreRestUnchanged

(***************************************************************************)
(* The targets API: POST /api/databases creates a target and               *)
(* PUT /api/databases/:id updates one.  Each handler checks the name,      *)
(* awaits the encryption of the password and then writes; the table        *)
(* declares Name TEXT NOT NULL UNIQUE.                                     *)
(***************************************************************************)
TargetRowIds == {"db1", "db2", "db3"}

TargetNames == {"a", "b"}

Requests == {"r1", "r2"}

NoTargetRow == [present |-> FALSE, Enabled |-> 0, Type |-> "", Name |-> ""]

NoRequest ==
  [pc |-> "idle", method |-> "", id |-> "", Name |-> Null, Password |-> FALSE,
   status |-> 0, error |-> ""]

NoRequests == [r \in Requests |-> NoRequest]

\* SELECT Id FROM DatabaseConfigs WHERE Name = ?
nameRows(rows, name) ==
  {id \in DOMAIN rows : rows[id].present /\ rows[id].Name = name}

\* a table whose Name column is not declared UNIQUE
uniqueNameUnchecked(rows, id, name) == TRUE

\* the UNIQUE constraint on Name: the row id may take the name
uniqueName(rows, id, name) == nameRows(rows, name) \ {id} = {}

targetsRestUnchanged ==
  UNCHANGED <<RetentionPolicies, S3Configs, BackupSchedules, timers, lastOp,
              BackupExecutions, activeJobs, localFiles, s3Objects, now, nextId, faults,
              task, dump, updateCalls, s3Puts, lastRun, RestoreExecutions, restoreTask,
              tempWrites>>

\* the handler returns a response
respond(r, rq, status) ==
  request' = [request EXCEPT ![r] = [rq EXCEPT !.pc = "done", !.status = status]]

\* INSERT INTO DatabaseConfigs under a fresh id; a statement the constraint
\* rejects throws, and handleApiError answers
insertTarget(r, rq) ==
  \E id \in {i \in TargetRowIds : ~DatabaseConfigs[i].present} :
    IF uniqueName(DatabaseConfigs, id, rq.Name[1])
    THEN /\ DatabaseConfigs' =
              [DatabaseConfigs EXCEPT ![id] =
                 [present |-> TRUE, Enabled |-> 1, Type |-> "postgresql",
                  Name |-> rq.Name[1]]]
         /\ respond(r, rq, 200)
    ELSE /\ UNCHANGED DatabaseConfigs
         /\ respond(r, [rq EXCEPT !.error = "SQLITE_CONSTRAINT"], 500)

\* UPDATE DatabaseConfigs SET ... WHERE Id = ?
updateTarget(r, rq) ==
  IF rq.Name # Null /\ ~uniqueName(DatabaseConfigs, rq.id, rq.Name[1])
  THEN /\ UNCHANGED DatabaseConfigs
       /\ respond(r, [rq EXCEPT !.error = "SQLITE_CONSTRAINT"], 500)
  ELSE /\ DatabaseConfigs' =
            IF rq.Name # Null /\ DatabaseConfigs[rq.id].present
            THEN [DatabaseConfigs EXCEPT ![rq.id].Name = rq.Name[1]]
            ELSE DatabaseConfigs
       /\ respond(r, rq, 200)

\* POST /api/databases, to its await of encrypt; rows still to be inserted
\* by suspended requests count against the ids of the model
PostRequest(r, name) ==
  /\ request[r].pc = "idle"
  /\ Cardinality({i \in TargetRowIds : DatabaseConfigs[i].present})
       + Cardinality({q \in Requests : request[q].pc = "encrypting"
                                          /\ request[q].method = "POST"})
       < Cardinality(TargetRowIds)
  /\ LET rq == [NoRequest EXCEPT !.method = "POST", !.Name = name,
                                 !.Password = TRUE] IN
     IF name = Null
     THEN respond(r, rq, 400)
     ELSE IF nameRows(DatabaseConfigs, name[1]) # {}
     THEN respond(r, rq, 409)
     ELSE request' = [request EXCEPT ![r] = [rq EXCEPT !.pc = "encrypting"]]
  /\ UNCHANGED DatabaseConfigs
  /\ targetsRestUnchanged

\* PUT /api/databases/:id, to its await of encrypt or, with no password in
\* the body, to its end
PutRequest(r, id, name, password) ==
  /\ request[r].pc = "idle"
  /\ LET rq == [NoRequest EXCEPT !.method = "PUT", !.id = id, !.Name = name,
                                 !.Password = password] IN
     IF ~DatabaseConfigs[id].present
     THEN respond(r, rq, 404) /\ UNCHANGED DatabaseConfigs
     ELSE IF name # Null /\ nameRows(DatabaseConfigs, name[1]) \ {id} # {}
     THEN respond(r, rq, 409) /\ UNCHANGED DatabaseConfigs
     ELSE IF password
     THEN /\ request' = [request EXCEPT ![r] = [rq EXCEPT !.pc = "encrypting"]]
          /\ UNCHANGED DatabaseConfigs
     ELSE IF name = Null
     THEN respond(r, rq, 400) /\ UNCHANGED DatabaseConfigs
     ELSE updateTarget(r, rq)
  /\ targetsRestUnchanged

\* encrypt settles and the handler runs to its end
EncryptDone(r, ok) ==
  /\ request[r].pc = "encrypting"
  /\ IF ~ok
     THEN /\ respond(r, [request[r] EXCEPT !.error = "encrypt"], 500)
          /\ UNCHANGED DatabaseConfigs
     ELSE IF request[r].method = "POST"
     THEN insertTarget(r, request[r])
     ELSE updateTarget(r, request[r])
  /\ targetsRestUnchanged

\* the response is sent
RequestEnd(r) ==
  /\ request[r].pc = "done"
  /\ request' = [request EXCEPT ![r] = NoRequest]
  /\ UNCHANGED DatabaseConfigs
  /\ targetsRestUnchanged

(***************************************************************************)
(* Initial states.                                                         *)
(***************************************************************************)
NoTarget == [present |-> FALSE, Enabled |-> 0, Type |-> ""]

NoPolicy ==
  [present |-> FALSE, KeepHourly |-> 0, KeepDaily |-> 0, KeepWeekly |-> 0,
   KeepMonthly |-> 0, KeepYearly |-> 0]

DefaultS3Config == [Bucket |-> "bucket", PathPrefix |-> "backups"]

\* a cron expression is its fields: minute, hour, day of month, month and
\* day of week, each a number or Star
Star == -1

EveryHour == <<0, Star, Star, Star, Star>>

DailyAtTwo == <<0, 2, Star, Star, Star>>

MinuteSixtyOne == <<61, Star, Star, Star, Star>>

Crons == {EveryHour, DailyAtTwo, MinuteSixtyOne}

\* the ranges of the five fields
fieldRange(i) ==
  CASE i = 1 -> 0..59
    [] i = 2 -> 0..23
    [] i = 3 -> 1..31
    [] i = 4 -> 1..12
    [] OTHER -> 0..7

\* cron.validate(expression)
validate(expression) ==
  /\ Len(expression) = 5
  /\ \A i \in 1..5 : expression[i] = Star \/ expression[i] \in fieldRange(i)

\* no row under this id in BackupSchedules
NoSchedule ==
  [present |-> FALSE, Id |-> "", DatabaseConfigId |-> "", ScheduleType |-> "",
   CronExpression |-> <<>>, Enabled |-> 0, S3UploadEnabled |-> "1",
   RetentionPolicyId |-> Null]

\* no operation on the registry yet; an operation records what it was called
\* with, the registry and the number of timers it found, the ids it rejected
\* and whether it threw
NoOp ==
  [op |-> "none", id |-> "", cron |-> <<>>, before |-> [s \in ScheduleIds |-> Null],
   created |-> 0, rejected |-> {}, threw |-> FALSE]

\* no schedule is stored and no timer was ever created
NoSchedules ==
  /\ BackupSchedules = [s \in ScheduleIds |-> NoSchedule]
  /\ timers = <<>>
  /\ activeJobs = [s \in ScheduleIds |-> Null]
  /\ lastOp = NoOp

\* nothing has run yet
QuietInit ==
  /\ localFiles = {}
  /\ s3Objects = {}
  /\ now = 0
  /\ nextId = 1
  /\ task = [p \in Procs |-> IdleTask(p)]
  /\ dump = NoDump
  /\ updateCalls = [id \in ExecIds |-> 0]
  /\ s3Puts = {}
  /\ lastRun = [t \in Targets |-> NoRun]
  /\ BackupExecutions = [id \in ExecIds |-> AbsentRow]
  /\ NoRestores
  /\ request = NoRequests

\* the application is up: initializeScheduler has installed a timer for each
\* enabled schedule.  Two schedules exist; s1 backs up db1, uploads or not,
\* and names the retention policy; s2 is a custom schedule on db1 or db2.
Init ==
  /\ QuietInit
  /\ faults = MaxFaults
  /\ DatabaseConfigs \in
       { [t \in Targets |->
            IF t = "db1" THEN [present |-> TRUE, Enabled |-> 1, Type |-> "postgresql"]
            ELSE d2] :
         d2 \in { [present |-> TRUE, Enabled |-> 0, Type |-> "mysql"], NoTarget } }
  /\ RetentionPolicies =
       [id \in PolicyIds |->
          IF id = "default" THEN [NoPolicy EXCEPT !.present = TRUE, !.KeepHourly = 1]
          ELSE NoPolicy]
  /\ S3Configs \in {Null, Some(DefaultS3Config)}
  /\ \E u \in {"0", "1"}, t \in Targets :
       /\ BackupSchedules =
            [s \in ScheduleIds |->
               IF s = "s1"
               THEN [present |-> TRUE, Id |-> "s1", DatabaseConfigId |-> "db1",
                     ScheduleType |-> "hourly", CronExpression |-> EveryHour,
                     Enabled |-> 1,
                     S3UploadEnabled |-> u, RetentionPolicyId |-> Some("default")]
               ELSE [present |-> TRUE, Id |-> "s2", DatabaseConfigId |-> t,
                     ScheduleType |-> "custom", CronExpression |-> DailyAtTwo,
                     Enabled |-> 1,
                     S3UploadEnabled |-> "1",
                     RetentionPolicyId |-> IF t = "db2" THEN Some("default") ELSE Null]]
       /\ timers = << [Id |-> "s1", schedule |-> BackupSchedules["s1"], running |-> TRUE],
                      [Id |-> "s2", schedule |-> BackupSchedules["s2"], running |-> TRUE] >>
  /\ activeJobs = [s \in ScheduleIds |-> IF s = "s1" THEN Some(1) ELSE Some(2)]
  /\ lastOp = [NoOp EXCEPT !.op = "initializeAll"]

Next ==
  \/ \E p \in Procs, s \in ScheduleIds : TimerFire(p, s)
  \/ \E p \in Procs, t \in Targets, u \in {"true", "false", "undefined"} :
       ManualBackup(p, t, u)
  \/ \E p \in Procs : DumpSettles(p)
  \/ \E p \in Procs : UploadDone(p)
  \/ \E p \in Procs : S3DeleteDone(p)
  \/ \E p \in Procs : TaskEnd(p)
  \/ Tick

Spec == Init /\ [][Next]_vars

(***************************************************************************)
(* The scheduler registry: scheduleBackupJob, unscheduleBackupJob,         *)
(* reloadSchedule, initializeScheduler and shutdownScheduler, as           *)
(* transformations of the timers and the registry, and the edits of the    *)
(* BackupSchedules table that happen between them.                         *)
(***************************************************************************)
\* the timers and the registry as one value, with the ids rejected so far
Registry == [timers |-> timers, activeJobs |-> activeJobs, rejected |-> {}]

\* job.stop() on every timer the registry holds for one of the ids
stopJobs(r, ids) ==
  [r EXCEPT !.timers =
     [k \in DOMAIN r.timers |->
        IF \E s \in ids : r.activeJobs[s] = Some(k)
        THEN [r.timers[k] EXCEPT !.running = FALSE]
        ELSE r.timers[k]]]

\* cron.schedule(expression, handler) then activeJobs.set(id, job)
setJob(r, schedule) ==
  [r EXCEPT !.timers = Append(@, [Id |-> schedule.Id, schedule |-> schedule,
                                  running |-> TRUE]),
            !.activeJobs[schedule.Id] = Some(Len(r.timers) + 1)]

scheduleBackupJobSkipsValidation(r, schedule) ==
  IF r.activeJobs[schedule.Id] # Null
  THEN setJob([stopJobs(r, {schedule.Id}) EXCEPT !.activeJobs[schedule.Id] = Null],
              schedule)
  ELSE setJob(r, schedule)

scheduleBackupJobLeavesExisting(r, schedule) ==
  IF ~validate(schedule.CronExpression)
  THEN [r EXCEPT !.rejected = @ \cup {schedule.Id}]
  ELSE setJob(r, schedule)

\* scheduleBackupJob(schedule)
scheduleBackupJob(r, schedule) ==
  IF ~validate(schedule.CronExpression)
  THEN [r EXCEPT !.rejected = @ \cup {schedule.Id}]
  ELSE IF r.activeJobs[schedule.Id] # Null
       THEN setJob([stopJobs(r, {schedule.Id}) EXCEPT !.activeJobs[schedule.Id] = Null],
                   schedule)
       ELSE setJob(r, schedule)

\* unscheduleBackupJob(scheduleId)
unscheduleBackupJob(r, scheduleId) ==
  IF r.activeJobs[scheduleId] # Null
  THEN [stopJobs(r, {scheduleId}) EXCEPT !.activeJobs[scheduleId] = Null]
  ELSE r

reloadScheduleIgnoresEnabled(r, rows, scheduleId) ==
  IF rows[scheduleId].present
  THEN scheduleBackupJob(r, rows[scheduleId])
  ELSE unscheduleBackupJob(r, scheduleId)

\* reloadSchedule(scheduleId), once its query has returned
reloadSchedule(r, rows, scheduleId) ==
  IF rows[scheduleId].present /\ rows[scheduleId].Enabled = 1
  THEN scheduleBackupJob(r, rows[scheduleId])
  ELSE unscheduleBackupJob(r, scheduleId)

\* SELECT * FROM BackupSchedules WHERE Enabled = 1
getEnabledSchedules(rows) == {s \in ScheduleIds : rows[s].present /\ rows[s].Enabled = 1}

RECURSIVE installAllAbortsOnFailure(_, _, _)
installAllAbortsOnFailure(r, rows, ids) ==
  IF ids = {} \/ r.rejected # {} THEN {r}
  ELSE UNION { installAllAbortsOnFailure(scheduleBackupJob(r, rows[s]), rows, ids \ {s}) :
               s \in ids }

\* the loop of initializeScheduler over the rows of the query, which come in
\* no stated order
RECURSIVE installAll(_, _, _)
installAll(r, rows, ids) ==
  IF ids = {} THEN {r}
  ELSE UNION { installAll(scheduleBackupJob(r, rows[s]), rows, ids \ {s}) : s \in ids }

\* activeJobs.forEach(job => job.stop()); activeJobs.clear()
clearJobs(r) ==
  [stopJobs(r, ScheduleIds) EXCEPT !.activeJobs = [s \in ScheduleIds |-> Null]]

\* initializeScheduler(), once its query has returned
initializeScheduler(r, rows) == installAll(clearJobs(r), rows, getEnabledSchedules(rows))

\* what an operation found when it was called
Called(op, id, cron) ==
  [NoOp EXCEPT !.op = op, !.id = id, !.cron = cron, !.before = activeJobs,
               !.created = Len(timers)]

ApplyRegistry(r, op) ==
  /\ timers' = r.timers
  /\ activeJobs' = r.activeJobs
  /\ lastOp' = [op EXCEPT !.rejected = r.rejected]

registryRestUnchanged ==
  /\ UNCHANGED <<DatabaseConfigs, RetentionPolicies, S3Configs, BackupExecutions,
                 localFiles, s3Objects, now, nextId, task, dump, updateCalls, s3Puts,
                 lastRun>>
  /\ restoreUnchanged
  /\ requestUnchanged

\* a schedule of db1 as a caller of scheduleBackupJob passes it
ScheduleRow(s, cron, enabled) ==
  [present |-> TRUE, Id |-> s, DatabaseConfigId |-> "db1", ScheduleType |-> "daily",
   CronExpression |-> cron, Enabled |-> enabled, S3UploadEnabled |-> "1",
   RetentionPolicyId |-> Null]

\* scheduleBackupJob is called with a schedule
Install(s, cron) ==
  /\ Len(timers) < MaxTimers
  /\ ApplyRegistry(scheduleBackupJob(Registry, ScheduleRow(s, cron, 1)),
                   Called("install", s, cron))
  /\ UNCHANGED <<BackupSchedules, faults>>
  /\ registryRestUnchanged

\* unscheduleBackupJob is called with a schedule id
Uninstall(s) ==
  /\ ApplyRegistry(unscheduleBackupJob(Registry, s), Called("uninstall", s, <<>>))
  /\ UNCHANGED <<BackupSchedules, faults>>
  /\ registryRestUnchanged

\* reloadSchedule is called with a schedule id; its query may throw
Reload(s) ==
  /\ Len(timers) < MaxTimers
  /\ \/ /\ ApplyRegistry(reloadSchedule(Registry, BackupSchedules, s),
                         Called("reload", s, BackupSchedules[s].CronExpression))
        /\ UNCHANGED faults
     \/ /\ faults > 0
        /\ faults' = faults - 1
        /\ lastOp' = [Called("reload", s, <<>>) EXCEPT !.threw = TRUE]
        /\ UNCHANGED <<timers, activeJobs>>
  /\ UNCHANGED BackupSchedules
  /\ registryRestUnchanged

\* initializeScheduler is called; its query may throw, after the registry
\* was cleared
InitializeAll ==
  /\ Len(timers) + Cardinality(getEnabledSchedules(BackupSchedules)) <= MaxTimers
  /\ \/ /\ \E r \in initializeScheduler(Registry, BackupSchedules) :
             ApplyRegistry(r, Called("initializeAll", "", <<>>))
        /\ UNCHANGED faults
     \/ /\ faults > 0
        /\ faults' = faults - 1
        /\ ApplyRegistry(clearJobs(Registry),
                         [Called("initializeAll", "", <<>>) EXCEPT !.threw = TRUE])
  /\ UNCHANGED BackupSchedules
  /\ registryRestUnchanged

\* shutdownScheduler is called
Shutdown ==
  /\ ApplyRegistry(clearJobs(Registry), Called("shutdown", "", <<>>))
  /\ UNCHANGED <<BackupSchedules, faults>>
  /\ registryRestUnchanged

\* a schedule is created or edited in the catalog
StoreSchedule(s, cron, enabled) ==
  /\ BackupSchedules[s] # ScheduleRow(s, cron, enabled)
  /\ BackupSchedules' = [BackupSchedules EXCEPT ![s] = ScheduleRow(s, cron, enabled)]
  /\ lastOp' = Called("store", s, cron)
  /\ UNCHANGED <<timers, activeJobs, faults>>
  /\ registryRestUnchanged

\* a schedule is deleted from the catalog
DeleteSchedule(s) ==
  /\ BackupSchedules[s].present
  /\ BackupSchedules' = [BackupSchedules EXCEPT ![s] = NoSchedule]
  /\ lastOp' = Called("delete", s, <<>>)
  /\ UNCHANGED <<timers, activeJobs, faults>>
  /\ registryRestUnchanged

\* the process has started and no schedule is stored yet
InitRegistry ==
  /\ QuietInit
  /\ faults = MaxFaults
  /\ DatabaseConfigs =
       [t \in Targets |->
          IF t = "db1" THEN [present |-> TRUE, Enabled |-> 1, Type |-> "postgresql"]
          ELSE NoTarget]
  /\ RetentionPolicies = [id \in PolicyIds |-> NoPolicy]
  /\ S3Configs = Null
  /\ NoSchedules

NextRegistry ==
  \/ \E s \in ScheduleIds, cron \in Crons : Install(s, cron)
  \/ \E s \in ScheduleIds : Uninstall(s)
  \/ \E s \in ScheduleIds : Reload(s)
  \/ InitializeAll
  \/ Shutdown
  \/ \E s \in ScheduleIds, cron \in Crons, enabled \in {0, 1} : StoreSchedule(s, cron, enabled)
  \/ \E s \in ScheduleIds : DeleteSchedule(s)

SpecRegistry == InitRegistry /\ [][NextRegistry]_vars

(***************************************************************************)
(* SpecRestore: restores of db1 (postgresql) and db2 (mysql, or missing)   *)
(* from local files and from remote objects, two at a time.                *)
(***************************************************************************)
\* the keys of two remote objects with the same base name
S3Keys == { <<"a", "k1">>, <<"b", "k1">> }

\* the requests RunRestore is called with: the local file backup1.gz exists,
\* missing.gz does not
RestoreInputs ==
  { [NoRestoreInput EXCEPT !.DatabaseConfigId = t, !.SourceType = "local",
                           !.SourcePath = Some(path)] :
      t \in Targets, path \in {"backup1.gz", "missing.gz"} }
  \cup
  { [NoRestoreInput EXCEPT !.DatabaseConfigId = "db1", !.SourceType = "s3",
                           !.S3Bucket = Some("bucket"), !.S3Key = Some(key)] :
      key \in S3Keys }
  \cup
  { [NoRestoreInput EXCEPT !.DatabaseConfigId = "db1", !.SourceType = "local"],
    [NoRestoreInput EXCEPT !.DatabaseConfigId = "db1", !.SourceType = "s3",
                           !.S3Key = Some(<<"a", "k1">>)],
    [NoRestoreInput EXCEPT !.DatabaseConfigId = "db1", !.SourceType = "s3",
                           !.S3Bucket = Some("bucket")],
    [NoRestoreInput EXCEPT !.DatabaseConfigId = "db2", !.SourceType = "s3",
                           !.S3Bucket = Some("bucket"), !.S3Key = Some(<<"a", "k1">>)],
    [NoRestoreInput EXCEPT !.DatabaseConfigId = "db1", !.SourceType = "upload"] }

\* what the restore programs may write to standard error
RestoreMessages == { <<"E", "r", "r", "o", "r">>, <<"o", "k">> }

InitRestore ==
  /\ localFiles = {"backup1.gz"}
  /\ s3Objects = {}
  /\ now = 0
  /\ nextId = 1
  /\ task = [p \in Procs |-> IdleTask(p)]
  /\ dump = NoDump
  /\ updateCalls = [id \in ExecIds |-> 0]
  /\ s3Puts = {}
  /\ lastRun = [t \in Targets |-> NoRun]
  /\ BackupExecutions = [id \in ExecIds |-> AbsentRow]
  /\ NoRestores
  /\ request = NoRequests
  /\ faults = 0
  /\ DatabaseConfigs \in
       { [t \in Targets |->
            IF t = "db1" THEN [present |-> TRUE, Enabled |-> 1, Type |-> "postgresql"]
            ELSE d2] :
         d2 \in { [present |-> TRUE, Enabled |-> 1, Type |-> "mysql"], NoTarget } }
  /\ RetentionPolicies = [id \in PolicyIds |-> NoPolicy]
  /\ S3Configs \in {Null, Some(DefaultS3Config)}
  /\ NoSchedules

NextRestore ==
  \/ \E p \in Procs, input \in RestoreInputs : RestoreCall(p, input)
  \/ \E p \in Procs, ok \in BOOLEAN : DownloadDone(p, ok)
  \/ \E p \in Procs, ok \in BOOLEAN : DecryptDone(p, ok)
  \/ \E p \in Procs, message \in RestoreMessages : RestoreStderrData(p, message)
  \/ \E p \in Procs : RestorePipelineFailed(p)
  \/ \E p \in Procs : RestoreProcError(p)
  \/ \E p \in Procs, code \in {Some(0), Some(1), Null} : RestoreClose(p, code)
  \/ \E p \in Procs : RestoreEnd(p)

SpecRestore == InitRestore /\ [][NextRestore]_vars

(***************************************************************************)
(* Catalogs of completed artifacts of db1, for the specifications of the   *)
(* retention engine.                                                       *)
(***************************************************************************)
\* every tier on and off, the hourly and daily counts up to MaxKeep
Policies ==
  { [present |-> TRUE, KeepHourly |-> h, KeepDaily |-> d, KeepWeekly |-> w,
     KeepMonthly |-> m, KeepYearly |-> y] :
    h \in 0..MaxKeep, d \in 0..MaxKeep, w \in 0..1, m \in 0..1, y \in 0..1 }

\* a completed artifact of db1 as executeBackup leaves it
completedArtifact(id, startedAt, uploaded) ==
  [AbsentRow EXCEPT !.Id = id,
                    !.DatabaseConfigId = "db1",
                    !.BackupType = "manual",
                    !.Status = "completed",
                    !.FileSizeBytes = Some(1),
                    !.LocalPath = Some(id),
                    !.S3Uploaded = IF uploaded THEN 1 ELSE 0,
                    !.S3Bucket = IF uploaded THEN Some("bucket") ELSE Null,
                    !.S3Key = IF uploaded THEN Some(id) ELSE Null,
                    !.S3UploadedAt = IF uploaded THEN Some(startedAt) ELSE Null,
                    !.StartedAt = startedAt,
                    !.DurationSeconds = Some(0),
                    !.Checksum = Some(0)]

\* up to MaxRows completed artifacts of db1, started at the given times in the
\* order of their ids, all uploaded or none; one policy, "default"
InitCatalog(times, policies, uploads) ==
  /\ DatabaseConfigs =
       [t \in Targets |->
          IF t = "db1" THEN [present |-> TRUE, Enabled |-> 1, Type |-> "postgresql"]
          ELSE NoTarget]
  /\ \E policy \in policies :
       RetentionPolicies = [id \in PolicyIds |-> IF id = "default" THEN policy ELSE NoPolicy]
  /\ NoSchedules
  /\ \E n \in 0..MaxRows, uploaded \in uploads :
       \E startedAt \in [1..n -> times] :
          /\ \A i, j \in 1..n : i < j => startedAt[i] <= startedAt[j]
          /\ BackupExecutions =
               [id \in ExecIds |->
                  IF id <= n THEN completedArtifact(id, startedAt[id], uploaded)
                  ELSE AbsentRow]
          /\ localFiles = 1..n
          /\ s3Objects = IF uploaded THEN 1..n ELSE {}
          /\ s3Puts = IF uploaded THEN 1..n ELSE {}
          /\ updateCalls = [id \in ExecIds |-> IF id <= n THEN 1 ELSE 0]
          /\ nextId = n + 1
  /\ now = 0
  /\ faults = MaxFaults
  /\ task = [p \in Procs |-> IdleTask(p)]
  /\ dump = NoDump
  /\ lastRun = [t \in Targets |-> NoRun]
  /\ NoRestores
  /\ request = NoRequests

(***************************************************************************)
(* SpecPreview: the keep-set of every catalog and policy.  The start times *)
(* cover every relation two artifacts can have: the same instant, hour,    *)
(* day, week, month or year, a week across two months, or none of them.    *)
(***************************************************************************)
StartTimes == {0, 1, 2, 25, 49, 73, 217}

InitPreview ==
  /\ InitCatalog(StartTimes, Policies \cup {NoPolicy}, {FALSE})
  /\ S3Configs = Null

NextPreview ==
  \/ \E id \in {Null, Some("default"), Some("pol1")} : PreviewCall("p1", "db1", id)
  \/ TaskEnd("p1")

SpecPreview == InitPreview /\ [][NextPreview]_vars

(***************************************************************************)
(* SpecRetention: retention runs over a catalog, one after the other.      *)
(***************************************************************************)
RetentionTimes == {0, 1, 25, 49}

RetentionPolicySet == {policy \in Policies : policy.KeepMonthly = 0 /\ policy.KeepYearly = 0
                                             /\ policy.KeepDaily <= 1}

InitRetention ==
  /\ InitCatalog(RetentionTimes, RetentionPolicySet, BOOLEAN)
  /\ S3Configs \in {Null, Some(DefaultS3Config)}

NextRetention ==
  \/ \E id \in {Null, Some("default"), Some("pol1")} : RetentionCall("p1", "db1", id)
  \/ S3DeleteDone("p1")
  \/ TaskEnd("p1")

SpecRetention == InitRetention /\ [][NextRetention]_vars

(***************************************************************************)
(* SpecPreviewApply: task p1 previews retention of db1 and, while it holds  *)
(* the lists, task p2 applies retention to db1.                            *)
(***************************************************************************)
InitPreviewApply ==
  /\ InitCatalog(RetentionTimes, {policy \in RetentionPolicySet : policy.KeepWeekly = 0},
                 BOOLEAN)
  /\ S3Configs = Some(DefaultS3Config)

NextPreviewApply ==
  \/ \E id \in {Null, Some("pol1")} : PreviewCall("p1", "db1", id)
  \/ \E id \in {Null, Some("pol1")} : RetentionCall("p2", "db1", id)
  \/ S3DeleteDone("p2")
  \/ \E p \in Procs : TaskEnd(p)

SpecPreviewApply == InitPreviewApply /\ [][NextPreviewApply]_vars

(***************************************************************************)
(* Properties of the retention engine.                                     *)
(***************************************************************************)
\* backups[i] and backups[j] fall in the same bucket of the tier
SameBucket(backups, tier, i, j) ==
  BucketKey(tier, backups[i].StartedAt) = BucketKey(tier, backups[j].StartedAt)

\* backups[i] is the representative of its bucket: the latest-starting artifact
\* of the bucket, and among those that started at the same instant the first
\* in the order of the catalog query
IsRepresentative(backups, tier, i) ==
  \A j \in DOMAIN backups :
     (j # i /\ SameBucket(backups, tier, i, j)) =>
        \/ backups[j].StartedAt < backups[i].StartedAt
        \/ (backups[j].StartedAt = backups[i].StartedAt /\ i < j)

\* the buckets of the tier that are newer than the one of backups[i]
NewerBuckets(backups, tier, i) ==
  { BucketKey(tier, backups[j].StartedAt) : j \in DOMAIN backups }
    \cap { k \in 0..300 : k > BucketKey(tier, backups[i].StartedAt) }

\* backups[i] is the representative of one of the K newest buckets of a tier
\* whose keep-count K is positive
KeptByTier(backups, policy, tier, i) ==
  /\ KeepCount(policy, tier) > 0
  /\ IsRepresentative(backups, tier, i)
  /\ Cardinality(NewerBuckets(backups, tier, i)) < KeepCount(policy, tier)

\* C9: the retention engine keeps an artifact if and only if, for some tier
\* with a positive keep-count K, the artifact is the representative of one of
\* the K newest buckets of that tier
C9_KeepSetIsTierRepresentatives ==
  \A p \in Procs :
     LET r == task[p].ret IN
     r.policy # Null =>
        /\ r.toKeep \subseteq { r.backups[i].Id : i \in DOMAIN r.backups }
        /\ \A i \in DOMAIN r.backups :
              r.backups[i].Id \in r.toKeep
                <=> \E tier \in Tiers : KeptByTier(r.backups, r.policy[1], tier, i)

\* a keep-set was computed over three artifacts, two of them started at the
\* same instant, by a policy of two tiers; it keeps some and drops some
C9_Witness ==
  LET r == task["p1"].ret IN
  /\ r.out = "preview"
  /\ r.policy # Null
  /\ Len(r.backups) = 3
  /\ \E i, j \in DOMAIN r.backups : i # j /\ r.backups[i].StartedAt = r.backups[j].StartedAt
  /\ r.policy[1].KeepHourly > 0
  /\ r.policy[1].KeepWeekly > 0
  /\ Cardinality(r.toKeep) = 2

\* C10: a retention run that follows a finished run for the same target and
\* policy, no backup having completed and no other run having been active in
\* between, deletes nothing and reports deleted = 0 and the same kept count
C10_RetentionIdempotent ==
  \A p \in Procs :
     LET r == task[p].ret IN
     (r.out = "returned" /\ r.second) => (r.deleted = 0 /\ r.kept = r.prevKept)

\* a second run has returned after a first one that deleted and kept artifacts
C10_Witness ==
  LET r == task["p1"].ret IN
  /\ r.out = "returned"
  /\ r.second
  /\ r.prevDeleted > 0
  /\ r.prevKept > 0

\* C6 as stated: no retention run ends by throwing to its caller
C6_RetentionNeverThrows ==
  \A p \in Procs : task[p].ret.out # "threw"

\* C6, amended: a retention run throws to its caller exactly when one of its
\* catalog statements failed; a failed deletion of the local file does not
\* stop the run, which returns {deleted, kept}
C6_RetentionThrowsOnlyCatalogFailures ==
  \A p \in Procs :
     LET r == task[p].ret IN
     r.out \in {"returned", "threw"} =>
        /\ (r.out = "threw") <=> r.catalogFailed
        /\ (r.unlinkFailed /\ ~r.catalogFailed) => r.out = "returned"

\* a run threw on a record deletion after it had deleted another record
C6_Witness ==
  LET r == task["p1"].ret IN
  /\ r.out = "threw"
  /\ r.catalogFailed
  /\ r.deleted > 0

(***************************************************************************)
(* Properties of the backup executor and the scheduler.                    *)
(***************************************************************************)
\* the call of executeBackup made by task p has ended
backupEnded(p) == task[p].backupCalls > 0 /\ task[p].pc \in {"done", "retention"}

\* C1: no two backup executions of the same target are in status running at
\* the same moment
C1_NoOverlappingBackups ==
  \A a, b \in ExecIds :
     (a # b /\ BackupExecutions[a].Status = "running"
            /\ BackupExecutions[b].Status = "running")
       => BackupExecutions[a].DatabaseConfigId # BackupExecutions[b].DatabaseConfigId

\* C4: once the call that created a record has ended, the record has been
\* updated exactly once and is completed or failed; no record is updated
\* more than once
C4_UpdatedExactlyOnce ==
  /\ \A id \in ExecIds : updateCalls[id] <= 1
  /\ \A p \in Procs :
       (backupEnded(p) /\ task[p].executionId # 0
          /\ BackupExecutions[task[p].executionId].Status # "absent")
         => /\ updateCalls[task[p].executionId] = 1
            /\ BackupExecutions[task[p].executionId].Status \in {"completed", "failed"}

\* C5: a call of executeBackup that has ended did not throw, returned a
\* success or failure result, and left the record it created in a terminal
\* status
C5_BackupNeverPropagates ==
  \A p \in Procs :
     backupEnded(p) =>
        /\ ~task[p].threw
        /\ task[p].result \in {"success", "failure"}
        /\ task[p].executionId # 0
        /\ BackupExecutions[task[p].executionId].Status \in {"completed", "failed", "absent"}

\* C7: when the dump succeeded and the upload failed, or no default remote
\* configuration exists, and no catalog statement of the call failed, the
\* call returns success and its record is completed with S3Uploaded false
C7_UploadFailureNotFatal ==
  \A p \in Procs :
     (backupEnded(p) /\ task[p].metadata # Null
        /\ task[p].uploadOutcome \in {"failed", "noconfig"}
        /\ ~task[p].catalogFailed)
       => /\ task[p].result = "success"
          /\ ~task[p].threw
          /\ LET row == BackupExecutions[task[p].executionId] IN
             row.Status # "absent" =>
                /\ row.Status = "completed"
                /\ row.S3Uploaded = 0
                /\ row.S3Bucket = Null
                /\ row.S3Key = Null

\* a backup whose upload failed has ended with its record completed
C7_Witness ==
  \E p \in Procs :
     /\ backupEnded(p)
     /\ task[p].uploadOutcome = "failed"
     /\ task[p].result = "success"
     /\ BackupExecutions[task[p].executionId].Status = "completed"
     /\ BackupExecutions[task[p].executionId].S3Uploaded = 0

\* C8: for the executions of a schedule whose upload flag is stored as the
\* integer 0, no remote put is issued and the record has S3Uploaded false
C8_NoPutWhenUploadOff ==
  \A s \in ScheduleIds, id \in ExecIds :
     (activeJobs[s] # Null /\ timers[activeJobs[s][1]].schedule.S3UploadEnabled = "0"
        /\ BackupExecutions[id].BackupScheduleId = Some(s))
       => (id \notin s3Puts /\ BackupExecutions[id].S3Uploaded = 0)

(***************************************************************************)
(* SpecDump: one manual backup of db1 and every order of the events of     *)
(* its dump.  No catalog statement fails and no remote store is configured.*)
(***************************************************************************)
InitDump ==
  /\ QuietInit
  /\ faults = 0
  /\ DatabaseConfigs \in
       { [t \in Targets |->
            IF t = "db1" THEN [present |-> TRUE, Enabled |-> 1, Type |-> engine]
            ELSE NoTarget] : engine \in {"postgresql", "mysql"} }
  /\ RetentionPolicies = [id \in PolicyIds |-> NoPolicy]
  /\ S3Configs = Null
  /\ NoSchedules

NextDump ==
  \/ \E u \in {"false", "undefined"} : ManualBackup("p1", "db1", u)
  \/ Spawn
  \/ \E chunk \in Bytes : StdoutData(chunk)
  \/ StdoutEnd
  \/ PipelineDone
  \/ PipelineFailed
  \/ \E message \in StderrMessages : StderrData(message)
  \/ ProcError
  \/ \E code \in {Some(0), Some(1), Null} : ProcExit(code)

SpecDump == InitDump /\ [][NextDump]_vars

(***************************************************************************)
(* Properties of the dump.                                                 *)
(***************************************************************************)
\* the record of the backup task p1 runs
dumpRow == BackupExecutions[task["p1"].executionId]

\* C2: once the dump sub-process has exited with a nonzero code, the call
\* has ended and its record is failed with a non-empty error message
C2_NonzeroExitFails ==
  (dump.exitSeen /\ dump.exitCode # Null /\ dump.exitCode # Some(0))
    => /\ task["p1"].pc = "done"
       /\ task["p1"].result = "failure"
       /\ dumpRow.Status = "failed"
       /\ dumpRow.ErrorMessage # Null
       /\ Len(dumpRow.ErrorMessage[1]) > 0

\* C3: a call that returned success left its record completed, with a file
\* size, and with the checksum of exactly the bytes that were fed to the
\* compressor, which are the decompressed content of the output file
C3_SuccessRecordsChecksumOfFedBytes ==
  task["p1"].result = "success"
    => /\ dumpRow.Status = "completed"
       /\ dumpRow.FileSizeBytes # Null
       /\ dumpRow.Checksum = Some(Digest(dump.fed))
       /\ dump.file # Null
       /\ Gunzip(dump.file[1]) = dump.fed
       /\ dumpRow.FileSizeBytes = Some(Len(dump.file[1]))

\* a backup of two different bytes returned success
C3_Witness ==
  /\ task["p1"].result = "success"
  /\ Len(dump.fed) = 2
  /\ dump.fed[1] # dump.fed[2]
  /\ dumpRow.Status = "completed"

(***************************************************************************)
(* Properties of the retention preview.                                    *)
(***************************************************************************)
\* the ids of a list of backups
IdsOf(backups) == { backups[i].Id : i \in DOMAIN backups }

\* the lists a preview returned are disjoint, without repetition, and hold
\* together exactly the completed artifacts of the target
PreviewPartitions(r) ==
  /\ IdsOf(r.keepList) \cap IdsOf(r.deleteList) = {}
  /\ IdsOf(r.keepList) \cup IdsOf(r.deleteList) = completedOf(BackupExecutions, r.target)
  /\ Len(r.keepList) + Len(r.deleteList)
       = Cardinality(completedOf(BackupExecutions, r.target))

\* C11 as stated: for every policy id, the toKeep and toDelete lists of a
\* preview are disjoint and their union is the set of completed artifacts of
\* the target
C11_PreviewAlwaysPartitions ==
  \A p \in Procs : task[p].ret.out = "preview" => PreviewPartitions(task[p].ret)

\* C11, amended: when the policy id resolves to a policy (the id "default" if
\* none is given) the two lists partition the completed artifacts of the
\* target; when it does not resolve both lists are empty
C11_PreviewPartitionsWhenPolicyResolves ==
  \A p \in Procs :
     LET r == task[p].ret IN
     r.out = "preview" =>
        IF getRetentionPolicy(policyIdOrDefault(r.policyId)) # Null
        THEN PreviewPartitions(r)
        ELSE r.keepList = <<>> /\ r.deleteList = <<>>

\* a preview under a policy that resolves kept some artifacts and listed
\* others for deletion
C11_Witness ==
  LET r == task["p1"].ret IN
  /\ r.out = "preview"
  /\ r.policy # Null
  /\ Len(r.keepList) > 0
  /\ Len(r.deleteList) > 1

(***************************************************************************)
(* SpecHourly: the scenario of ten completed backups of db1 started in ten *)
(* consecutive hours of one day, under a policy that keeps 3 hourly and 1  *)
(* daily backup.  One retention run is made.                               *)
(***************************************************************************)
InitHourly ==
  /\ DatabaseConfigs =
       [t \in Targets |->
          IF t = "db1" THEN [present |-> TRUE, Enabled |-> 1, Type |-> "postgresql"]
          ELSE NoTarget]
  /\ RetentionPolicies =
       [id \in PolicyIds |->
          IF id = "default"
          THEN [NoPolicy EXCEPT !.present = TRUE, !.KeepHourly = 3, !.KeepDaily = 1]
          ELSE NoPolicy]
  /\ S3Configs \in {Null, Some(DefaultS3Config)}
  /\ NoSchedules
  /\ \E firstHour \in 0..2, late \in 0..10, uploaded \in BOOLEAN, newestFirst \in BOOLEAN :
       \* the backup of the i-th hour starts at the hour, or one tick later
       LET startedAt(i) == 2 * (firstHour + i - 1) + (IF i = late THEN 1 ELSE 0)
           hourOf(id) == IF newestFirst THEN 11 - id ELSE id
       IN /\ BackupExecutions =
               [id \in 1..10 |-> completedArtifact(id, startedAt(hourOf(id)), uploaded)]
          /\ s3Objects = (IF uploaded THEN 1..10 ELSE {})
          /\ s3Puts = (IF uploaded THEN 1..10 ELSE {})
  /\ localFiles = 1..10
  /\ updateCalls = [id \in 1..10 |-> 1]
  /\ nextId = 11
  /\ now = 24
  /\ faults = MaxFaults
  /\ task = [p \in Procs |-> IdleTask(p)]
  /\ dump = NoDump
  /\ lastRun = [t \in Targets |-> NoRun]
  /\ NoRestores
  /\ request = NoRequests

NextHourly ==
  \/ \E id \in {Null, Some("default")} : RetentionCall("p1", "db1", id)
  \/ S3DeleteDone("p1")

SpecHourly == InitHourly /\ [][NextHourly]_vars

\* C12: over ten backups of ten consecutive hours of one day, with KeepHourly
\* 3 and KeepDaily 1, a retention run that returns reports deleted = 7 and
\* kept = 3 and leaves exactly the three newest backups in the catalog
C12_TenHourlyKeepsThreeNewest ==
  LET r == task["p1"].ret IN
  r.out = "returned" =>
     /\ r.deleted = 7
     /\ r.kept = 3
     /\ r.toKeep = { r.backups[1].Id, r.backups[2].Id, r.backups[3].Id }
     /\ completedOf(BackupExecutions, "db1") = r.toKeep
     /\ \A i \in 1..9 : r.backups[i].StartedAt > r.backups[i + 1].StartedAt

\* the run over the ten backups returned after seven remote deletions
C12_Witness ==
  LET r == task["p1"].ret IN
  /\ r.out = "returned"
  /\ Len(r.backups) = 10
  /\ r.s3Config # Null
  /\ r.deleted = 7

(***************************************************************************)
(* Properties of the policy lookup of applyRetentionPolicy.                *)
(***************************************************************************)
\* the step is a call of applyRetentionPolicy by task p1 with a policy id
\* that does not resolve
UnresolvedCall ==
  /\ task["p1"].pc = "idle"
  /\ task["p1"]'.ret.out # "none"
  /\ task["p1"]'.ret.policyId # Null
  /\ getRetentionPolicy(task["p1"]'.ret.policyId[1]) = Null

C14_UnresolvedPolicyUsesDefault ==
  \A p \in Procs :
     LET r == task[p].ret IN
     (r.out = "returned"
        /\ (r.policyId = Null \/ getRetentionPolicy(r.policyId[1]) = Null))
       => r.policy = getRetentionPolicy("default")

(***************************************************************************)
(* Properties of the deletions of applyRetentionPolicy.                    *)
(***************************************************************************)
\* C15: a retention run that returns has deleted the catalog record of every
\* artifact outside its keep-set, also of those whose local file or remote
\* object it failed to delete, and has counted each of them
C15_RecordDeletedDespiteFailures ==
  \A p \in Procs :
     LET r == task[p].ret IN
     (r.out = "returned" /\ r.policy # Null) =>
        /\ \A i \in DOMAIN r.backups :
              r.backups[i].Id \notin r.toKeep
                => BackupExecutions[r.backups[i].Id].Status = "absent"
        /\ r.deleted = Len(r.backups) - Cardinality(r.toKeep)

\* a run returned after a local file and a remote object could not be deleted;
\* the file and an object are still there, their records are not
C15_Witness ==
  LET r == task["p1"].ret IN
  /\ r.out = "returned"
  /\ r.unlinkFailed
  /\ r.remoteFailed
  /\ r.deleted >= 2
  /\ \E id \in localFiles : BackupExecutions[id].Status = "absent"
  /\ \E id \in s3Objects : BackupExecutions[id].Status = "absent"

(***************************************************************************)
(* Properties of the scheduler registry.                                   *)
(***************************************************************************)
\* the timers created for schedule s that are still running
runningTimers(s) == {k \in DOMAIN timers : timers[k].Id = s /\ timers[k].running}

\* C16: after an Install of a schedule id with a valid cron expression,
\* whatever Installs of that id came before, the registry holds one timer for
\* the id, it is the timer this Install created, from the expression it was
\* given, and every timer created earlier for the id is stopped.
C16_InstallReplaces ==
  (lastOp.op = "install" /\ validate(lastOp.cron)) =>
    /\ activeJobs[lastOp.id] = Some(Len(timers))
    /\ Len(timers) = lastOp.created + 1
    /\ timers[Len(timers)].schedule.CronExpression = lastOp.cron
    /\ runningTimers(lastOp.id) = {Len(timers)}

\* a second Install of the same id, with another expression, has replaced the
\* timer of the first
C16_Witness ==
  /\ lastOp.op = "install"
  /\ validate(lastOp.cron)
  /\ lastOp.before[lastOp.id] # Null
  /\ timers[lastOp.before[lastOp.id][1]].schedule.CronExpression # lastOp.cron
  /\ ~timers[lastOp.before[lastOp.id][1]].running

\* C17: no timer was ever created from a cron expression that fails
\* validation, by Install, Reload or InitializeAll, so the registry holds no
\* timer built from one.
C17_InvalidCronNeverInstalled ==
  /\ \A k \in DOMAIN timers : validate(timers[k].schedule.CronExpression)
  /\ \A s \in ScheduleIds :
       activeJobs[s] # Null => validate(timers[activeJobs[s][1]].schedule.CronExpression)

\* InitializeAll found an enabled schedule with an invalid expression and
\* rejected it
C17_Witness ==
  /\ lastOp.op = "initializeAll"
  /\ lastOp.rejected # {}
  /\ \A s \in lastOp.rejected :
       BackupSchedules[s].Enabled = 1 /\ ~validate(BackupSchedules[s].CronExpression)

\* Reload of lastOp.id has returned
Reloaded == lastOp.op = "reload" /\ ~lastOp.threw

\* the row of the reloaded schedule is stored and enabled
ReloadedRowEnabled ==
  BackupSchedules[lastOp.id].present /\ BackupSchedules[lastOp.id].Enabled = 1

\* the timer the registry held for the reloaded schedule is stopped
PreviousStopped ==
  lastOp.before[lastOp.id] # Null => ~timers[lastOp.before[lastOp.id][1]].running

\* C18 as stated: after Reload returns, a stored and enabled schedule has a
\* timer in the registry built from the row as stored, and any other schedule
\* has no timer and its previous timer is stopped.
C18_ReloadMatchesCatalog ==
  Reloaded =>
    IF ReloadedRowEnabled
    THEN /\ activeJobs[lastOp.id] # Null
         /\ timers[activeJobs[lastOp.id][1]].schedule = BackupSchedules[lastOp.id]
         /\ timers[activeJobs[lastOp.id][1]].running
    ELSE /\ activeJobs[lastOp.id] = Null
         /\ PreviousStopped

\* C18 amended: after Reload returns, a stored and enabled schedule with a
\* valid cron expression has a running timer in the registry built from the
\* row as stored, and the previous timer is stopped; a stored and enabled
\* schedule with an invalid expression leaves the registry and the timers as
\* they were; any other schedule has no timer and its previous timer is
\* stopped.
C18_ReloadMatchesCatalogWhenCronValid ==
  Reloaded =>
    IF ReloadedRowEnabled /\ validate(BackupSchedules[lastOp.id].CronExpression)
    THEN /\ activeJobs[lastOp.id] = Some(Len(timers))
         /\ Len(timers) = lastOp.created + 1
         /\ timers[Len(timers)].schedule = BackupSchedules[lastOp.id]
         /\ runningTimers(lastOp.id) = {Len(timers)}
    ELSE IF ReloadedRowEnabled
    THEN /\ activeJobs = lastOp.before
         /\ Len(timers) = lastOp.created
         /\ lastOp.before[lastOp.id] # Null => timers[lastOp.before[lastOp.id][1]].running
    ELSE /\ activeJobs[lastOp.id] = Null
         /\ runningTimers(lastOp.id) = {}
         /\ PreviousStopped

\* a reload found the schedule enabled with an invalid expression while the
\* registry held a timer for it
C18_Witness ==
  /\ Reloaded
  /\ ReloadedRowEnabled
  /\ ~validate(BackupSchedules[lastOp.id].CronExpression)
  /\ lastOp.before[lastOp.id] # Null

\* InitializeAll has returned
Initialized == lastOp.op = "initializeAll" /\ ~lastOp.threw

\* the schedule is stored, enabled and its cron expression is valid
Installable(s) ==
  /\ BackupSchedules[s].present
  /\ BackupSchedules[s].Enabled = 1
  /\ validate(BackupSchedules[s].CronExpression)

\* C19: after InitializeAll returns, whatever the registry held, every timer
\* created before is stopped, each stored and enabled schedule with a valid
\* cron expression has exactly one running timer, created by this call from
\* its row and held by the registry, and no other id has a timer; a rejected
\* schedule does not keep the others from being installed.
C19_InitializeAllRebuilds ==
  Initialized =>
    /\ \A k \in 1..lastOp.created : ~timers[k].running
    /\ \A s \in ScheduleIds :
         IF Installable(s)
         THEN /\ activeJobs[s] # Null
              /\ activeJobs[s][1] > lastOp.created
              /\ timers[activeJobs[s][1]].schedule = BackupSchedules[s]
              /\ runningTimers(s) = {activeJobs[s][1]}
         ELSE /\ activeJobs[s] = Null
              /\ runningTimers(s) = {}

\* InitializeAll found a timer in the registry, rejected one schedule and
\* installed another
C19_Witness ==
  /\ Initialized
  /\ \E s \in ScheduleIds : lastOp.before[s] # Null
  /\ lastOp.rejected # {}
  /\ \E s \in ScheduleIds : activeJobs[s] # Null

(***************************************************************************)
(* Properties of a timer fire.                                             *)
(***************************************************************************)
\* the target of the schedule a task runs is missing or disabled
TargetUnavailable(tk) ==
  \/ ~DatabaseConfigs[tk.schedule[1].DatabaseConfigId].present
  \/ DatabaseConfigs[tk.schedule[1].DatabaseConfigId].Enabled = 0

\* this step is a timer fire served by task p whose target is missing or
\* disabled
SkippedFire(p) ==
  /\ task[p].pc = "idle"
  /\ task[p]'.pc # "idle"
  /\ task[p]'.caller = "timer"
  /\ TargetUnavailable(task[p]')

\* C20: a timer fire whose target is missing or disabled ends at once: the
\* backup executor is not invoked, no BackupExecutions row is created, no
\* file or object is written and the retention engine is not invoked.
C20_FireSkipsMissingOrDisabledTarget ==
  [][ \A p \in Procs :
        SkippedFire(p) =>
          /\ task[p]'.pc = "done"
          /\ task[p]'.backupCalls = 0
          /\ task[p]'.retentionCalls = 0
          /\ UNCHANGED <<BackupExecutions, nextId, localFiles, s3Objects, dump,
                         updateCalls>> ]_vars

\* a schedule that names a retention policy fired on a disabled or missing
\* target and the handler returned without a backup
C20_Witness ==
  \E p \in Procs :
    /\ task[p].pc = "done"
    /\ task[p].caller = "timer"
    /\ TargetUnavailable(task[p])
    /\ task[p].schedule[1].RetentionPolicyId # Null
    /\ task[p].backupCalls = 0
    /\ faults = MaxFaults

C26_StderrErrorInAnyCaseRejects ==
  /\ [][ \A message \in StderrMessages :
           StderrData(message) =>
             (dump.hasError' <=>
                (dump.hasError
                 \/ includes(toLowerCase(message), <<"e", "r", "r", "o", "r">>))) ]_vars
  /\ []((dump.hasError
         \/ (dump.exitSeen /\ dump.exitCode # Null /\ dump.exitCode # Some(0)))
        => task["p1"].result # "success")

(***************************************************************************)
(* Properties of the order of the deletions of applyRetentionPolicy.       *)
(***************************************************************************)
\* the artifact a suspended retention run is deleting
currentBackup(p) == task[p].ret.backups[task[p].ret.i]

\* C27: the catalog record of an uploaded artifact is removed by a retention
\* run only in the step that resumes from the delete of its remote object,
\* with or without a default remote configuration; and when that delete is
\* awaited the deletion of the local file has already been attempted.
C27_RemoteDeleteBeforeRecord ==
  /\ [][ \A id \in ExecIds :
           (remoteRecorded(BackupExecutions[id])
            /\ BackupExecutions[id].Status = "completed"
            /\ BackupExecutions[id]'.Status = "absent")
           => \E p \in Procs :
                /\ task[p].pc = "retention"
                /\ task[p]'.ret.i > task[p].ret.i
                /\ \E i \in task[p].ret.i..(task[p]'.ret.i - 1) :
                      task[p].ret.backups[i].Id = id ]_vars
  /\ [](\A p \in Procs :
          task[p].pc = "retention" =>
            \/ currentBackup(p).LocalPath[1] \notin localFiles
            \/ task[p].ret.unlinkFailed)

(***************************************************************************)
(* Properties of a preview followed by a retention run.                    *)
(***************************************************************************)
\* task p2 has returned from a retention run made, with the policy id of
\* the preview, on the catalog that the preview task p1 holds had read
AppliedAfterPreview ==
  /\ task["p1"].ret.out = "preview"
  /\ task["p2"].ret.out = "returned"
  /\ policyIdOrDefault(task["p2"].ret.policyId) = policyIdOrDefault(task["p1"].ret.policyId)
  /\ task["p2"].ret.backups = task["p1"].ret.backups

\* C28: a preview leaves the catalog, the local files and the remote
\* objects as they were, and a retention run that follows it on the same
\* target with the same policy and returns has removed the records of
\* exactly the artifacts the preview listed in toDelete.
C28_PreviewChangesNothingAndPredictsApply ==
  /\ [][ \A p \in Procs :
           (task[p].pc = "idle" /\ task[p]'.ret.out = "preview")
           => UNCHANGED <<BackupExecutions, localFiles, s3Objects, RetentionPolicies,
                          DatabaseConfigs, S3Configs, BackupSchedules>> ]_vars
  /\ [](AppliedAfterPreview =>
          /\ \A i \in DOMAIN task["p1"].ret.deleteList :
                BackupExecutions[task["p1"].ret.deleteList[i].Id].Status = "absent"
          /\ \A i \in DOMAIN task["p1"].ret.keepList :
                BackupExecutions[task["p1"].ret.keepList[i].Id] = task["p1"].ret.keepList[i]
          /\ task["p2"].ret.deleted = Len(task["p1"].ret.deleteList))

\* a preview listed two artifacts for deletion and kept one, and the run
\* that followed removed two records
C28_Witness ==
  /\ AppliedAfterPreview
  /\ Len(task["p1"].ret.deleteList) = 2
  /\ Len(task["p1"].ret.keepList) = 1
  /\ task["p2"].ret.deleted = 2

(***************************************************************************)
(* SpecCore: the timer of schedule s1 fires, with the backup, the upload   *)
(* and the retention run that follow, while restores are made from the     *)
(* local file of the first backup and from a remote object.                *)
(***************************************************************************)
CoreRestoreInputs ==
  { [NoRestoreInput EXCEPT !.DatabaseConfigId = "db1", !.SourceType = "local",
                           !.SourcePath = Some(1)],
    [NoRestoreInput EXCEPT !.DatabaseConfigId = "db1", !.SourceType = "s3",
                           !.S3Bucket = Some("bucket"), !.S3Key = Some(<<"a", "k1">>)] }

NextCore ==
  \/ TimerFire("p1", "s1")
  \/ DumpSettles("p1")
  \/ UploadDone("p1")
  \/ S3DeleteDone("p1")
  \/ TaskEnd("p1")
  \/ \E input \in CoreRestoreInputs : RestoreCall("p1", input)
  \/ \E ok \in BOOLEAN : DownloadDone("p1", ok)
  \/ \E ok \in BOOLEAN : DecryptDone("p1", ok)
  \/ RestorePipelineFailed("p1")
  \/ \E code \in {Some(0), Some(1)} : RestoreClose("p1", code)
  \/ RestoreEnd("p1")

SpecCore == Init /\ [][NextCore]_vars

(***************************************************************************)
(* Properties of the restore executor.                                     *)
(***************************************************************************)
\* the record of the restore task p runs
restoreRow(p) == RestoreExecutions[restoreTask[p].executionId]

\* the call of task p asked for a local file that does not exist
MissingLocalSource(p) ==
  /\ restoreTask[p].input.SourceType = "local"
  /\ restoreTask[p].input.SourcePath # Null
  /\ restoreTask[p].input.SourcePath[1] \notin localFiles
  /\ DatabaseConfigs[restoreTask[p].input.DatabaseConfigId].present

\* C22: a restore from a local path that does not exist is over at once with
\* its record failed, an error message that holds the path, and no
\* sub-process launched.
C22_MissingLocalPathFails ==
  \A p \in Procs :
    (restoreTask[p].pc # "idle" /\ MissingLocalSource(p)) =>
      /\ restoreTask[p].pc = "done"
      /\ restoreTask[p].result = "failure"
      /\ restoreRow(p).Status = "failed"
      /\ restoreRow(p).ErrorMessage # Null
      /\ \E i \in DOMAIN restoreRow(p).ErrorMessage[1] :
            restoreRow(p).ErrorMessage[1][i] = restoreTask[p].input.SourcePath[1]
      /\ restoreTask[p].spawned = 0
      /\ restoreTask[p].proc = "none"

\* a restore from the missing local file has ended
C22_Witness ==
  \E p \in Procs :
    /\ restoreTask[p].pc = "done"
    /\ MissingLocalSource(p)
    /\ restoreTask[p].input.SourcePath = Some("missing.gz")
    /\ restoreRow(p).Status = "failed"

\* C23: once the restore program has closed, for either engine, its code
\* alone decides the record: code 0 or null gives completed, also after
\* lines with "error" on standard error, and any other code gives failed
\* with the accumulated error lines in the message.
C23_ExitCodeAloneDecides ==
  \A p \in Procs :
    restoreTask[p].proc = "closed" =>
      IF restoreTask[p].closeCode \in {Some(0), Null}
      THEN restoreRow(p).Status = "completed"
      ELSE /\ restoreRow(p).Status = "failed"
           /\ restoreRow(p).ErrorMessage # Null
           /\ \E i \in 0..Len(restoreRow(p).ErrorMessage[1]) :
                 SubSeq(restoreRow(p).ErrorMessage[1], i + 1,
                        Len(restoreRow(p).ErrorMessage[1])) = restoreTask[p].errorMessage

\* C29: every restore record that is completed or failed carries a
\* duration.
C29_TerminalRestoreHasDuration ==
  \A id \in RestoreIds :
    RestoreExecutions[id].Status \in {"completed", "failed"}
      => RestoreExecutions[id].DurationSeconds # Null

\* the call of task p asked for a remote object, for a target that exists
RemoteSource(p) ==
  /\ restoreTask[p].pc # "idle"
  /\ restoreTask[p].input.SourceType = "s3"
  /\ DatabaseConfigs[restoreTask[p].input.DatabaseConfigId].present

\* the call of task p has ended failed and never launched a sub-process
FailedWithoutSubprocess(p) ==
  /\ restoreTask[p].pc = "done"
  /\ restoreTask[p].result = "failure"
  /\ restoreRow(p).Status = "failed"
  /\ restoreTask[p].spawned = 0
  /\ restoreTask[p].proc = "none"

\* C30: a restore from a remote object ends failed with no sub-process
\* launched when the bucket or the key is missing, when there is no default
\* remote configuration, and when the download fails; a sub-process is
\* launched only after the download succeeded, into the temporary path built
\* from the execution id and the base name of the key; and no temporary path
\* is written by two restores.
C30_RemoteRestoreFailsWithoutSubprocess ==
  /\ \A p \in Procs :
       RemoteSource(p) =>
         /\ (restoreTask[p].input.S3Bucket = Null \/ restoreTask[p].input.S3Key = Null
             \/ S3Configs = Null)
            => (FailedWithoutSubprocess(p) /\ restoreTask[p].download = "none")
         /\ restoreTask[p].download = "failed" => FailedWithoutSubprocess(p)
         /\ restoreTask[p].spawned > 0 =>
              /\ restoreTask[p].spawned = 1
              /\ restoreTask[p].download = "ok"
              /\ restoreTask[p].backupFilePath =
                   Some(tempFileName(restoreTask[p].executionId,
                                     restoreTask[p].input.S3Key[1]))
              /\ [path |-> restoreTask[p].backupFilePath[1],
                  by |-> restoreTask[p].executionId] \in tempWrites
  /\ \A w1, w2 \in tempWrites : w1.path = w2.path => w1.by = w2.by

\* two restores of remote objects with the same base name run their
\* sub-processes at the same time, each on its own temporary file
C30_Witness ==
  /\ \A p \in Procs :
       /\ RemoteSource(p)
       /\ restoreTask[p].proc = "alive"
       /\ basename(restoreTask[p].input.S3Key[1]) = "k1"
  /\ Cardinality(tempWrites) = 2

(***************************************************************************)
(* SpecTargets: create and update requests over a table of up to three     *)
(* targets and two names.                                                  *)
(***************************************************************************)
InitTargets ==
  /\ localFiles = {}
  /\ s3Objects = {}
  /\ now = 0
  /\ nextId = 1
  /\ task = [p \in Procs |-> IdleTask(p)]
  /\ dump = NoDump
  /\ updateCalls = [id \in ExecIds |-> 0]
  /\ s3Puts = {}
  /\ lastRun = [t \in Targets |-> NoRun]
  /\ BackupExecutions = [id \in ExecIds |-> AbsentRow]
  /\ NoRestores
  /\ request = NoRequests
  /\ faults = 0
  /\ DatabaseConfigs \in
       { [i \in TargetRowIds |->
            IF i = "db1"
            THEN [present |-> TRUE, Enabled |-> 1, Type |-> "postgresql", Name |-> "a"]
            ELSE IF i = "db2" THEN d2
            ELSE NoTargetRow] :
         d2 \in { [present |-> TRUE, Enabled |-> 1, Type |-> "mysql", Name |-> "b"],
                  NoTargetRow } }
  /\ RetentionPolicies = [id \in PolicyIds |-> NoPolicy]
  /\ S3Configs = Null
  /\ NoSchedules

NextTargets ==
  \/ \E r \in Requests, name \in {Null} \cup {Some(n) : n \in TargetNames \cup {"c"}} :
        PostRequest(r, name)
  \/ \E r \in Requests, id \in TargetRowIds,
        name \in {Null} \cup {Some(n) : n \in TargetNames \cup {"c"}},
        password \in BOOLEAN :
        PutRequest(r, id, name, password)
  \/ \E r \in Requests, ok \in BOOLEAN : EncryptDone(r, ok)
  \/ \E r \in Requests : RequestEnd(r)

SpecTargets == InitTargets /\ [][NextTargets]_vars

(***************************************************************************)
(* Properties of the targets API.                                          *)
(***************************************************************************)
\* C25: whatever the interleaving of create and update requests, no two
\* targets of the table have the same name.
C25_TargetNamesUnique ==
  \A a, b \in TargetRowIds :
    (a # b /\ DatabaseConfigs[a].present /\ DatabaseConfigs[b].present)
      => DatabaseConfigs[a].Name # DatabaseConfigs[b].Name

\* both requests passed the check of the same name before either wrote; one
\* wrote the name and the other was refused by the table
C25_Witness ==
  /\ request["r1"].pc = "done" /\ request["r1"].status = 200
  /\ request["r2"].pc = "done" /\ request["r2"].status = 500
  /\ request["r2"].error = "SQLITE_CONSTRAINT"
  /\ request["r1"].Name # Null
  /\ request["r1"].Name = request["r2"].Name
  /\ nameRows(DatabaseConfigs, request["r1"].Name[1]) # {}

(***************************************************************************)
(* SpecFire: the timers of Spec fire while schedule s1 is edited, disabled *)
(* or deleted in the catalog, reloaded and uninstalled.                    *)
(***************************************************************************)
NextFire ==
  \/ \E s \in ScheduleIds : TimerFire("p1", s)
  \/ DumpSettles("p1")
  \/ UploadDone("p1")
  \/ S3DeleteDone("p1")
  \/ TaskEnd("p1")
  \/ \E enabled \in {0, 1} : StoreSchedule("s1", DailyAtTwo, enabled)
  \/ DeleteSchedule("s1")
  \/ Reload("s1")
  \/ Uninstall("s1")

SpecFire == Init /\ [][NextFire]_vars

(***************************************************************************)
(* SpecMixed: retention runs of db1 over a catalog that also holds running *)
(* and failed records of db1 and completed artifacts of db2.               *)
(***************************************************************************)
\* a record of the catalog: a completed artifact of either target, or a
\* running or failed backup of db1
mixedRow(id, kind, startedAt, uploaded) ==
  CASE kind = "completed" -> completedArtifact(id, startedAt, uploaded)
    [] kind = "other" ->
         [completedArtifact(id, startedAt, uploaded) EXCEPT !.DatabaseConfigId = "db2"]
    [] kind = "running" ->
         runningRow(id, [NoInput EXCEPT !.DatabaseConfigId = "db1",
                                        !.BackupType = "manual"], startedAt)
    [] kind = "failed" ->
         failedRow(runningRow(id, [NoInput EXCEPT !.DatabaseConfigId = "db1",
                                                  !.BackupType = "manual"], startedAt),
                   <<"dump failed">>, startedAt)

InitMixed ==
  /\ DatabaseConfigs =
       [t \in Targets |-> [present |-> TRUE, Enabled |-> 1, Type |-> "postgresql"]]
  /\ \E policy \in {q \in RetentionPolicySet : q.KeepWeekly = 0} :
       RetentionPolicies = [id \in PolicyIds |-> IF id = "default" THEN policy ELSE NoPolicy]
  /\ NoSchedules
  /\ S3Configs = Some(DefaultS3Config)
  /\ \E kind \in [ExecIds -> {"completed", "other", "running", "failed"}],
        uploaded \in BOOLEAN :
       LET held == {id \in ExecIds : kind[id] \in {"completed", "other"}} IN
       /\ BackupExecutions =
            [id \in ExecIds |-> mixedRow(id, kind[id], (id - 1) \div 2, uploaded)]
       /\ localFiles = held
       /\ s3Objects = IF uploaded THEN held ELSE {}
       /\ s3Puts = IF uploaded THEN held ELSE {}
       /\ updateCalls = [id \in ExecIds |-> IF kind[id] = "running" THEN 0 ELSE 1]
  /\ nextId = Cardinality(ExecIds) + 1
  /\ now = 0
  /\ faults = MaxFaults
  /\ task = [p \in Procs |-> IdleTask(p)]
  /\ dump = NoDump
  /\ lastRun = [t \in Targets |-> NoRun]
  /\ NoRestores
  /\ request = NoRequests

NextMixed ==
  \/ \E id \in {Null, Some("pol1")} : RetentionCall("p1", "db1", id)
  \/ S3DeleteDone("p1")
  \/ TaskEnd("p1")

SpecMixed == InitMixed /\ [][NextMixed]_vars

(***************************************************************************)
(* SpecOverlap: retention runs of db1 in both tasks, suspended on remote    *)
(* deletes, while a backup of db1 is requested and completes.              *)
(***************************************************************************)
\* POST /api/backups for db1 while the table of the model has room
BackupRequest(p) ==
  /\ firstIdle(p)
  /\ nextId \in ExecIds
  /\ \E out \in executeBackup(
                  [w |-> World, tk |-> [task[p] EXCEPT !.caller = "api"]],
                  [DatabaseConfigId |-> "db1", BackupScheduleId |-> Null,
                   BackupType |-> "manual", S3UploadEnabled |-> "true"]) :
        Commit(p, out)
  /\ UNCHANGED now
  /\ catalogUnchanged
  /\ dumpUnchanged

\* two completed, uploaded artifacts of db1 and a policy of hourly counts
InitOverlap ==
  /\ DatabaseConfigs =
       [t \in Targets |->
          IF t = "db1" THEN [present |-> TRUE, Enabled |-> 1, Type |-> "postgresql"]
          ELSE NoTarget]
  /\ \E policy \in {q \in RetentionPolicySet : q.KeepWeekly = 0 /\ q.KeepDaily = 0} :
       RetentionPolicies = [id \in PolicyIds |-> IF id = "default" THEN policy ELSE NoPolicy]
  /\ NoSchedules
  /\ S3Configs = Some(DefaultS3Config)
  /\ \E startedAt \in [1..2 -> {0, 1}] :
       /\ startedAt[1] <= startedAt[2]
       /\ BackupExecutions =
            [id \in ExecIds |->
               IF id <= 2 THEN completedArtifact(id, startedAt[id], TRUE) ELSE AbsentRow]
  /\ localFiles = 1..2
  /\ s3Objects = 1..2
  /\ s3Puts = 1..2
  /\ updateCalls = [id \in ExecIds |-> IF id <= 2 THEN 1 ELSE 0]
  /\ nextId = 3
  /\ now \in {0, 1}
  /\ faults = 0
  /\ task = [p \in Procs |-> IdleTask(p)]
  /\ dump = NoDump
  /\ lastRun = [t \in Targets |-> NoRun]
  /\ NoRestores
  /\ request = NoRequests

NextOverlap ==
  \/ \E p \in Procs : RetentionCall(p, "db1", Null)
  \/ \E p \in Procs : S3DeleteDone(p)
  \/ \E p \in Procs : BackupRequest(p)
  \/ \E p \in Procs : DumpSettles(p)
  \/ \E p \in Procs : UploadDone(p)
  \/ \E p \in Procs : TaskEnd(p)

SpecOverlap == InitOverlap /\ [][NextOverlap]_vars

(***************************************************************************)
(* SpecExit: one manual backup of db1 with the events of its dump, and     *)
(* restores of db1 from the file of that backup.                           *)
(***************************************************************************)
NextExit ==
  \/ ManualBackup("p1", "db1", "false")
  \/ Spawn
  \/ \E chunk \in Bytes : StdoutData(chunk)
  \/ StdoutEnd
  \/ PipelineDone
  \/ PipelineFailed
  \/ \E message \in StderrMessages : StderrData(message)
  \/ \E code \in {Some(0), Some(1), Null} : ProcExit(code)
  \/ RestoreCall("p1", [NoRestoreInput EXCEPT !.DatabaseConfigId = "db1",
                                             !.SourceType = "local",
                                             !.SourcePath = Some(1)])
  \/ \E ok \in BOOLEAN : DecryptDone("p1", ok)
  \/ RestorePipelineFailed("p1")
  \/ \E code \in {Some(0), Some(1), Null} : RestoreClose("p1", code)
  \/ RestoreEnd("p1")

SpecExit == InitDump /\ [][NextExit]_vars

(***************************************************************************)
(* Properties of the status of the records.                                *)
(***************************************************************************)
\* C24: the status of every backup record and of every restore record is
\* running, completed or failed; none is ever cancelled.
C24_NoRecordCancelled ==
  /\ \A id \in ExecIds :
       BackupExecutions[id].Status # "absent"
         => BackupExecutions[id].Status \in {"running", "completed", "failed"}
  /\ \A id \in RestoreIds :
       RestoreExecutions[id].Status # "absent"
         => RestoreExecutions[id].Status \in {"running", "completed", "failed"}

\* a completed and a failed backup record stand beside a completed and a
\* failed restore record
C24_Witness ==
  /\ \E id \in ExecIds : BackupExecutions[id].Status = "completed"
  /\ \E id \in ExecIds : BackupExecutions[id].Status = "failed"
  /\ \E id \in RestoreIds : RestoreExecutions[id].Status = "completed"
  /\ \E id \in RestoreIds : RestoreExecutions[id].Status = "failed"

(***************************************************************************)
(* Further properties of the scheduler registry.                           *)
(***************************************************************************)
\* C31: after any sequence of Install, Uninstall, Reload, InitializeAll and
\* Shutdown, a timer is running exactly when the registry holds it: no
\* schedule id has two running timers and no running timer is outside the
\* registry.
C31_LiveTimersAreRegistered ==
  /\ \A k \in DOMAIN timers :
       timers[k].running <=> activeJobs[timers[k].Id] = Some(k)
  /\ \A s \in ScheduleIds : Cardinality(runningTimers(s)) <= 1

\* both schedules have a running timer and a timer stopped earlier
C31_Witness ==
  /\ \A s \in ScheduleIds : activeJobs[s] # Null
  /\ \E k \in DOMAIN timers : ~timers[k].running
  /\ Len(timers) = 3


\* this step is an Install or a Reload that found a stored schedule, and the
\* cron expression of the schedule fails validation
InvalidCronCall ==
  /\ lastOp'.op \in {"install", "reload"}
  /\ ~lastOp'.threw
  /\ ~validate(lastOp'.cron)
  /\ lastOp'.op = "reload" => BackupSchedules[lastOp'.id].present

\* C32 as stated: an Install or a Reload of a schedule with an invalid cron
\* expression leaves the timers and the registry unchanged.
C32_InvalidCronLeavesRegistry ==
  [][InvalidCronCall => UNCHANGED <<timers, activeJobs>>]_vars

\* C32: an Install, or a Reload of an enabled schedule, with an invalid cron
\* expression leaves the timers and the registry unchanged: the timer already
\* installed for the id is neither stopped nor replaced and keeps the
\* schedule it captured.
C32_InvalidCronOfEnabledLeavesRegistry ==
  [][(InvalidCronCall
        /\ (lastOp'.op = "reload" => BackupSchedules[lastOp'.id].Enabled = 1))
       => UNCHANGED <<timers, activeJobs>>]_vars

\* a Reload of an enabled schedule with an invalid expression has left the
\* timer installed earlier for the id running
C32_Witness ==
  /\ lastOp.op = "reload"
  /\ ~lastOp.threw
  /\ ~validate(lastOp.cron)
  /\ BackupSchedules[lastOp.id].present
  /\ BackupSchedules[lastOp.id].Enabled = 1
  /\ lastOp.before[lastOp.id] # Null
  /\ activeJobs = lastOp.before
  /\ timers[activeJobs[lastOp.id][1]].running
  /\ validate(timers[activeJobs[lastOp.id][1]].schedule.CronExpression)


latestStarted(backups) ==
  {i \in DOMAIN backups : \A j \in DOMAIN backups : backups[j].StartedAt <= backups[i].StartedAt}

\* the sum of the five keep-counts
keepCounts(policy) ==
  policy.KeepHourly + policy.KeepDaily + policy.KeepWeekly + policy.KeepMonthly
    + policy.KeepYearly

\* C34: when the policy has a positive keep-count and the run fetched at
\* least one completed artifact, the artifact with the latest start time is
\* in the keep-set and its record stays (of several artifacts started at
\* that same instant, one is); when all five keep-counts are 0, a run that
\* returns without a catalog failure has deleted every artifact it fetched.
C34_NewestKeptUnlessAllZero ==
  \A p \in Procs :
     LET r == task[p].ret IN
     (r.policy # Null /\ r.out # "preview" /\ Len(r.backups) > 0) =>
        /\ keepCounts(r.policy[1]) > 0 =>
             \E i \in latestStarted(r.backups) :
                /\ r.backups[i].Id \in r.toKeep
                /\ BackupExecutions[r.backups[i].Id] = r.backups[i]
        /\ (keepCounts(r.policy[1]) = 0 /\ r.out = "returned" /\ ~r.catalogFailed) =>
             /\ r.deleted = Len(r.backups)
             /\ \A i \in DOMAIN r.backups :
                   BackupExecutions[r.backups[i].Id].Status = "absent"

\* a run over three artifacts with a policy whose keep-counts sum to one has
\* returned and deleted two of them, and the newest is the one that stays
C34_Witness ==
  LET r == task["p1"].ret IN
  /\ r.out = "returned"
  /\ r.policy # Null
  /\ keepCounts(r.policy[1]) = 1
  /\ Len(r.backups) = 3
  /\ r.deleted = 2
  /\ Cardinality(latestStarted(r.backups)) = 1
  /\ \A i \in latestStarted(r.backups) :
        BackupExecutions[r.backups[i].Id].Status = "completed"


\* C35: a retention run that resolved a policy and returned reports counts
\* with deleted + kept = the number of completed artifacts it fetched at its
\* start, and kept is at most the sum of the five keep-counts.
C35_CountsPartitionFetched ==
  \A p \in Procs :
     LET r == task[p].ret
         policy == getRetentionPolicy(policyIdOrDefault(r.policyId)) IN
     (r.out = "returned" /\ policy # Null) =>
        /\ r.deleted + r.kept = Len(r.backups)
        /\ r.kept <= keepCounts(policy[1])

\* a run over three artifacts has returned two deleted and one kept under a
\* policy whose keep-counts sum to more than it kept
C35_Witness ==
  LET r == task["p1"].ret IN
  /\ r.out = "returned"
  /\ r.policy # Null
  /\ Len(r.backups) = 3
  /\ r.deleted = 2
  /\ r.kept = 1
  /\ keepCounts(r.policy[1]) > 1


\* C36: a retention run of db1 changes a catalog record only by deleting it,
\* and only a record that is completed and belongs to db1: running and
\* failed records, and the records of db2, stay as they are.
C36_OnlyCompletedOfTargetDeleted ==
  [][ \A id \in ExecIds :
        BackupExecutions'[id] # BackupExecutions[id] =>
          /\ BackupExecutions[id].Status = "completed"
          /\ BackupExecutions[id].DatabaseConfigId = "db1"
          /\ BackupExecutions'[id] = AbsentRow ]_vars

\* a run of db1 has returned with a deletion while a running or failed
\* record of db1 and a completed artifact of db2 are in the catalog
C36_Witness ==
  /\ task["p1"].ret.out = "returned"
  /\ task["p1"].ret.target = "db1"
  /\ task["p1"].ret.deleted > 0
  /\ \E id \in ExecIds : BackupExecutions[id].Status = "absent"
  /\ \E id \in ExecIds :
        /\ BackupExecutions[id].Status \in {"running", "failed"}
        /\ BackupExecutions[id].DatabaseConfigId = "db1"
  /\ \E id \in ExecIds :
        /\ BackupExecutions[id].Status = "completed"
        /\ BackupExecutions[id].DatabaseConfigId = "db2"


(***************************************************************************)
(* Properties of retention runs that overlap.                              *)
(***************************************************************************)
\* the ids of the artifacts a run fetched at its start
snapshotIds(r) == {r.backups[i].Id : i \in DOMAIN r.backups}

\* task p holds a retention run that computed a keep-set
holdsRun(p) == task[p].ret.policy # Null /\ task[p].ret.out # "preview"

\* every completed artifact of the target that the runs of p and q fetched or
\* that the catalog holds now
knownRows(p, q) ==
  [id \in ExecIds |->
     IF id \in snapshotIds(task[p].ret)
     THEN task[p].ret.backups[CHOOSE i \in DOMAIN task[p].ret.backups :
                                 task[p].ret.backups[i].Id = id]
     ELSE IF id \in snapshotIds(task[q].ret)
     THEN task[q].ret.backups[CHOOSE i \in DOMAIN task[q].ret.backups :
                                 task[q].ret.backups[i].Id = id]
     ELSE BackupExecutions[id]]

\* the order lists the artifacts of the snapshot in the order of the snapshot
agreesWith(order, snapshot) ==
  \A i, j \in DOMAIN snapshot :
     i < j => \E k, l \in DOMAIN order :
                 k < l /\ order[k].Id = snapshot[i].Id /\ order[l].Id = snapshot[j].Id

\* C37: a retention run deletes only artifacts of the snapshot it fetched at
\* its start, and the snapshot and the keep-set do not change while it is
\* suspended, so a backup that completes meanwhile is not deleted by it; and
\* when two tasks hold runs of the same target and policy, no artifact of the
\* keep-set of all the artifacts known by the end (in an order of equal start
\* times that agrees with both snapshots) is deleted by either run.
C37_RunsDecideFromSnapshot ==
  /\ [][ /\ \A id \in ExecIds :
              (BackupExecutions[id].Status # "absent"
                 /\ BackupExecutions'[id].Status = "absent") =>
                 \E p \in Procs :
                    /\ task'[p] # task[p]
                    /\ task'[p].ret.target = BackupExecutions[id].DatabaseConfigId
                    /\ id \in snapshotIds(task'[p].ret) \ task'[p].ret.toKeep
         /\ \A p \in Procs :
              (task[p].pc = "retention" /\ task'[p].pc # "idle") =>
                 /\ task'[p].ret.backups = task[p].ret.backups
                 /\ task'[p].ret.toKeep = task[p].ret.toKeep ]_vars
  /\ [](\A p, q \in Procs :
          (p # q /\ holdsRun(p) /\ holdsRun(q)
             /\ task[p].ret.target = task[q].ret.target
             /\ task[p].ret.policy = task[q].ret.policy) =>
            LET rows == knownRows(p, q)
                ids == completedOf(rows, task[p].ret.target)
            IN \A order \in orderedDesc(rows, ids) :
                  (agreesWith(order, task[p].ret.backups)
                     /\ agreesWith(order, task[q].ret.backups)) =>
                    determineBackupsToKeep(order, task[p].ret.policy[1])
                      \cap ((snapshotIds(task[p].ret) \ task[p].ret.toKeep)
                            \cup (snapshotIds(task[q].ret) \ task[q].ret.toKeep)) = {})

\* the run of p1 is suspended on the remote delete of an artifact; a backup
\* completed meanwhile, and the run of p2, started after it, has returned with
\* the new artifact kept and the older ones deleted
C37_Witness ==
  /\ task["p1"].pc = "retention"
  /\ holdsRun("p1")
  /\ holdsRun("p2")
  /\ task["p2"].ret.out = "returned"
  /\ task["p2"].ret.deleted > 1
  /\ \E id \in task["p2"].ret.toKeep :
        /\ id \notin snapshotIds(task["p1"].ret)
        /\ BackupExecutions[id].Status = "completed"
  /\ task["p1"].ret.toKeep # {}


(***************************************************************************)
(* Properties of the remote-location fields.                               *)
(***************************************************************************)
\* the record has a bucket, a key and an upload time
remoteLocated(row) == row.S3Bucket # Null /\ row.S3Key # Null /\ row.S3UploadedAt # Null

\* the tasks whose executeBackup call created the record id
executorsOf(id) == {p \in Procs : task[p].backupCalls > 0 /\ task[p].executionId = id}

\* in every record S3Uploaded is set exactly when the three fields of the
\* remote location are, and no failed or running record has it set
remoteFieldsAgree ==
  \A id \in ExecIds :
     LET row == BackupExecutions[id] IN
     row.Status # "absent" =>
        /\ row.S3Uploaded = 1 <=> remoteLocated(row)
        /\ row.Status \in {"failed", "running"} => row.S3Uploaded = 0

\* C38 as stated: the remote-location fields agree, and S3Uploaded is set
\* exactly when the remote put of the execution returned success.
C38_UploadedExactlyWhenPutSucceeded ==
  /\ remoteFieldsAgree
  /\ \A id \in ExecIds : \A p \in executorsOf(id) :
        BackupExecutions[id].Status # "absent" =>
           (BackupExecutions[id].S3Uploaded = 1 <=> task[p].uploadOutcome = "uploaded")

\* C38: the remote-location fields agree; S3Uploaded is set only when the
\* remote put of the execution returned success, and always when it did and
\* the record is completed; a failed record never has S3Uploaded set.
C38_UploadedOnlyWhenPutSucceeded ==
  /\ remoteFieldsAgree
  /\ \A id \in ExecIds : \A p \in executorsOf(id) :
        BackupExecutions[id].Status # "absent" =>
           /\ BackupExecutions[id].S3Uploaded = 1 => task[p].uploadOutcome = "uploaded"
           /\ (task[p].uploadOutcome = "uploaded"
                 /\ BackupExecutions[id].Status = "completed")
                => BackupExecutions[id].S3Uploaded = 1

\* one backup ended completed and uploaded after its put succeeded; another
\* ended completed and not uploaded after its put failed
C38_Witness ==
  /\ \E id \in ExecIds : \E p \in executorsOf(id) :
        /\ BackupExecutions[id].Status = "completed"
        /\ BackupExecutions[id].S3Uploaded = 1
        /\ remoteLocated(BackupExecutions[id])
        /\ task[p].uploadOutcome = "uploaded"
  /\ \E id \in ExecIds : \E p \in executorsOf(id) :
        /\ BackupExecutions[id].Status = "completed"
        /\ BackupExecutions[id].S3Uploaded = 0
        /\ task[p].uploadOutcome = "failed"


(***************************************************************************)
(* Properties of a sub-process killed by a signal.                         *)
(***************************************************************************)
\* C39: an 'exit' of the dump program with a null code settles nothing, and
\* when the output pipeline has finished with no error line flagged the
\* backup is recorded as completed; a 'close' of the restore program with a
\* null code leaves the restore recorded as failed.
C39_NullExitFatalOnlyForRestore ==
  /\ [][ (~dump.exitSeen /\ dump'.exitSeen /\ dump'.exitCode = Null) =>
            /\ dump'.settled = dump.settled
            /\ UNCHANGED <<task, BackupExecutions>> ]_vars
  /\ []((dump.exitSeen /\ dump.exitCode = Null /\ dump.pipeline = "done"
           /\ ~dump.hasError) =>
          /\ task["p1"].result = "success"
          /\ BackupExecutions[task["p1"].executionId].Status = "completed")
  /\ [](\A p \in Procs :
          (restoreTask[p].proc = "closed" /\ restoreTask[p].closeCode = Null) =>
             /\ restoreTask[p].result = "failure"
             /\ RestoreExecutions[restoreTask[p].executionId].Status = "failed")

\* the dump was killed by a signal after its output had ended and the backup
\* is completed; a restore from the file of that backup was killed by a
\* signal, with no failure of its pipeline, and is failed
C39_Witness ==
  /\ dump.exitSeen
  /\ dump.exitCode = Null
  /\ dump.pipeline = "done"
  /\ ~dump.hasError
  /\ BackupExecutions[1].Status = "completed"
  /\ restoreTask["p1"].proc = "closed"
  /\ restoreTask["p1"].closeCode = Null
  /\ ~restoreTask["p1"].pipelineFailed
  /\ restoreTask["p1"].backupFilePath = Some(1)
  /\ RestoreExecutions[restoreTask["p1"].executionId].Status = "failed"

====
